---- MODULE Spec2Model ----
(***************************************************************************)
(* A model of the Glue interpreter and its HTTP dispatcher.                *)
(*                                                                         *)
(*   - the value model (executor.h), the tree-walking evaluator            *)
(*     (executor.cpp) and the pieces of the parser that fix the shape of   *)
(*     the AST the evaluator walks (parser.cpp);                           *)
(*   - the dispatcher: routing table, listener, session and worker pool    *)
(*     (executor.cpp Executor::execute, server.cpp, server.h).             *)
(*                                                                         *)
(* Representation.  A std::string that the program parses or compares      *)
(* character by character (number lexemes, string values) is a sequence of *)
(* one-character strings; a std::string that is only compared for          *)
(* equality (identifiers, object keys, paths) is a TLA+ string.  A float   *)
(* is an exact fraction n/d in lowest terms.  A ComplexValue is the pair   *)
(* (first, second) of the source: the tag 1 (array) or 2 (object) and the  *)
(* address of the container, an index into the heap.                       *)
(***************************************************************************)
EXTENDS Integers, Sequences, FiniteSets, TLC

(***************************************************************************)
(* Bounds of the model.                                                    *)
(***************************************************************************)
MaxIter == 4          \* loop iterations followed before a loop counts as not terminating
MaxItems == 3         \* top-level items of a generated source program
MaxSessions == 2      \* connections accepted in one run of the server
MaxLen == 3           \* elements of a generated array
MaxOps == 3           \* binary operators in a generated expression

(***************************************************************************)
(* Program constants.                                                      *)
(***************************************************************************)
DefaultPort == 80     \* parser.cpp: int port = 80
PoolSize == 4         \* server.h: http_thread_pool_(4)
NULL_VALUE == 0       \* executor.h: #define NULL_VALUE 0
ArrayTag == 1         \* ComplexValue.first of an array
ObjectTag == 2        \* ComplexValue.first of an object

(***************************************************************************)
(* Value: std::variant<int, float, std::string, bool, ComplexValue>.       *)
(***************************************************************************)
RECURSIVE GCD(_, _)
GCD(a, b) == IF b = 0 THEN a ELSE GCD(b, a % b)

Abs(a) == IF a < 0 THEN -a ELSE a

IntV(i) == [t |-> "int", i |-> i]

\* a float holding the fraction n/d (d > 0), kept in lowest terms
FloatV(n, d) ==
    LET g == GCD(Abs(n), d)
    IN  [t |-> "float", n |-> n \div g, d |-> d \div g]

StringV(s) == [t |-> "string", s |-> s]

BoolV(b) == [t |-> "bool", b |-> b]

ComplexValue(first, second) == [t |-> "complex", first |-> first, second |-> second]

\* variant of DefaultValue: a Value that holds nothing, the null value
DefaultValueNull == ComplexValue(NULL_VALUE, 0)

\* Value(): a default-constructed variant holds its first alternative, int 0
DefaultValue == IntV(0)

is_type(T, val) == val.t = T

\* variant of VariantEq: an int and a float compare by numeric value
VariantEqPromoting(l, r) ==
    IF l.t = "int" /\ r.t = "float" THEN r.d = 1 /\ r.n = l.i
    ELSE IF l.t = "float" /\ r.t = "int" THEN l.d = 1 /\ l.n = r.i
    ELSE /\ l.t = r.t
         /\ CASE l.t = "int" -> l.i = r.i
              [] l.t = "float" -> l.n = r.n /\ l.d = r.d
              [] l.t = "string" -> l.s = r.s
              [] l.t = "bool" -> l.b = r.b
              [] l.t = "complex" -> l.first = r.first /\ l.second = r.second

\* std::variant operator==: same alternative and equal contents; a
\* ComplexValue is a std::pair<int, void*>, compared by tag and address
VariantEq(l, r) ==
    /\ l.t = r.t
    /\ CASE l.t = "int" -> l.i = r.i
         [] l.t = "float" -> l.n = r.n /\ l.d = r.d
         [] l.t = "string" -> l.s = r.s
         [] l.t = "bool" -> l.b = r.b
         [] l.t = "complex" -> l.first = r.first /\ l.second = r.second

(***************************************************************************)
(* Lexemes: std::stoi and std::stof on the text of a literal.              *)
(***************************************************************************)
Digit(c) ==
    CASE c = "0" -> 0 [] c = "1" -> 1 [] c = "2" -> 2 [] c = "3" -> 3
      [] c = "4" -> 4 [] c = "5" -> 5 [] c = "6" -> 6 [] c = "7" -> 7
      [] c = "8" -> 8 [] c = "9" -> 9

IsDigit(c) == c \in {"0", "1", "2", "3", "4", "5", "6", "7", "8", "9"}

\* value of the digit run s[1..k]
RECURSIVE DigitsValue(_, _)
DigitsValue(s, k) == IF k = 0 THEN 0 ELSE 10 * DigitsValue(s, k - 1) + Digit(s[k])

RECURSIVE Pow10(_)
Pow10(k) == IF k = 0 THEN 1 ELSE 10 * Pow10(k - 1)

\* std::stoi(text): an optional sign followed by decimal digits
stoi(s) ==
    IF s[1] = "-" THEN -DigitsValue(Tail(s), Len(s) - 1) ELSE DigitsValue(s, Len(s))

\* position of the '.' in a float lexeme, Len(s) + 1 when there is none
RECURSIVE DotPos(_, _)
DotPos(s, k) == IF k > Len(s) THEN k ELSE IF s[k] = "." THEN k ELSE DotPos(s, k + 1)

\* std::stof(text) for digits [ '.' digits ]
stof(s) ==
    LET p == DotPos(s, 1)
        whole == DigitsValue(s, p - 1)
        frac == IF p >= Len(s) THEN <<>> ELSE SubSeq(s, p + 1, Len(s))
    IN  FloatV(whole * Pow10(Len(frac)) + DigitsValue(frac, Len(frac)), Pow10(Len(frac)))

(***************************************************************************)
(* std::string operator< : byte-lexicographic order.                       *)
(***************************************************************************)
CharCode(c) ==
    CASE c = "a" -> 97 [] c = "b" -> 98 [] c = "c" -> 99 [] c = "h" -> 104
      [] c = "i" -> 105 [] c = "x" -> 120 [] c = "y" -> 121 [] c = "z" -> 122
      [] IsDigit(c) -> 48 + Digit(c)
      [] c = "." -> 46 [] c = "-" -> 45

RECURSIVE StringLess(_, _)
StringLess(a, b) ==
    IF b = <<>> THEN FALSE
    ELSE IF a = <<>> THEN TRUE
    ELSE IF CharCode(Head(a)) # CharCode(Head(b)) THEN CharCode(Head(a)) < CharCode(Head(b))
    ELSE StringLess(Tail(a), Tail(b))

(***************************************************************************)
(* AST nodes (parser.h).  A null unique_ptr is the node nullptr.           *)
(***************************************************************************)
nullptr == [op_type |-> "nullptr", stmt_type |-> "nullptr"]

IsNull(node) == node.op_type = "nullptr"

\* ExprNode(OpType type, std::string val = ""): left(nullptr), right(nullptr)
ExprNode(type, val) ==
    [op_type |-> type, value |-> val, left |-> nullptr, right |-> nullptr,
     parameters |-> <<>>, array_elements |-> <<>>, object_members |-> <<>>]

\* a node with both children set, as the binary levels of the parser build it
BinaryNode(type, l, r) == [ExprNode(type, "") EXCEPT !.left = l, !.right = r]

\* StmtNode(StmtType type): no children, no condition, no expression
StmtNode(type) ==
    [op_type |-> "stmt", stmt_type |-> type, children |-> <<>>,
     condition |-> nullptr, expr |-> nullptr, exprs |-> <<>>]

(***************************************************************************)
(* The state of one Executor and of the heap it allocates on.              *)
(*   variables, result_, return_ : the members of the class                *)
(*   heap     : the containers created by new, by address                  *)
(*   error    : the message of the exception in flight, "" when none       *)
(*   hung     : a loop of the evaluation does not terminate                *)
(*   out      : what print has written                                     *)
(*   net      : what the outbound HTTP client answers, by url              *)
(*   hash     : the iteration order of the build's std::unordered_map      *)
(*   log      : history of the evaluation (not program state)              *)
(***************************************************************************)
EmptyMap == [k \in {} |-> DefaultValue]

NewExecutor(heap, net, hash) ==
    [variables |-> EmptyMap, result_ |-> DefaultValue, return_ |-> FALSE,
     heap |-> heap, error |-> "", hung |-> FALSE, out |-> <<>>,
     net |-> net, hash |-> hash, log |-> <<>>]

Aborted(st) == st.error # "" \/ st.hung

\* variant of MapPut: insert only, a key that is present keeps its value
MapPutAbsent(m, k, v) == [x \in (DOMAIN m) \cup {k} |-> IF x \in DOMAIN m THEN m[x] ELSE v]

\* std::unordered_map operator[] used as an lvalue: insert or overwrite
MapPut(m, k, v) == [x \in (DOMAIN m) \cup {k} |-> IF x = k THEN v ELSE m[x]]

\* the result of an expression: its value and the state it leaves
Returns(val, st) == [val |-> val, st |-> st]

\* throw ExecutionError(msg)
Throw(st, msg) == [val |-> DefaultValue, st |-> [st EXCEPT !.error = msg]]

Ok(v) == [ok |-> TRUE, v |-> v, msg |-> ""]

Err(msg) == [ok |-> FALSE, v |-> DefaultValue, msg |-> msg]

\* get_value<T>(val): the value, or ExecutionError("Type mismatch ...")
get_value(T, val) == IF is_type(T, val) THEN Ok(val) ELSE Err("Type mismatch")

\* new std::vector / new std::unordered_map: the address of a fresh container
Alloc(st, contents) == [st EXCEPT !.heap = Append(@, contents)]

NewAddress(st) == Len(st.heap) + 1

Log(st, event) == [st EXCEPT !.log = Append(@, event)]

(***************************************************************************)
(* Arithmetic and comparison on two evaluated operands.                    *)
(***************************************************************************)
\* float l = is_type<int>(left_val) ? get_value<int>(left_val) : get_value<float>(left_val)
AsFloat(val) ==
    IF is_type("int", val) THEN Ok(FloatV(val.i, 1)) ELSE get_value("float", val)

\* C++ integer division truncates toward zero
CDiv(a, b) ==
    IF (a < 0) = (b < 0) THEN Abs(a) \div Abs(b) ELSE -(Abs(a) \div Abs(b))

FloatAdd(l, r) == FloatV(l.n * r.d + r.n * l.d, l.d * r.d)

FloatSub(l, r) == FloatV(l.n * r.d - r.n * l.d, l.d * r.d)

FloatMul(l, r) == FloatV(l.n * r.n, l.d * r.d)

FloatDiv(l, r) ==
    IF r.n < 0 THEN FloatV(-(l.n * r.d), l.d * (-r.n)) ELSE FloatV(l.n * r.d, l.d * r.n)

FloatLess(l, r) == l.n * r.d < r.n * l.d

\* variant of Add: the float branch is taken only when both operands are floats
AddBothFloat(l, r) ==
    IF is_type("int", l) /\ is_type("int", r) THEN Ok(IntV(l.i + r.i))
    ELSE IF is_type("float", l) /\ is_type("float", r) THEN Ok(FloatAdd(l, r))
    ELSE IF is_type("string", l) /\ is_type("string", r) THEN Ok(StringV(l.s \o r.s))
    ELSE Err("Addition not supported for types")

\* case ADD
Add(l, r) ==
    IF is_type("int", l) /\ is_type("int", r) THEN Ok(IntV(l.i + r.i))
    ELSE IF is_type("float", l) \/ is_type("float", r) THEN
        LET lf == AsFloat(l)
            rf == AsFloat(r)
        IN  IF ~lf.ok THEN Err(lf.msg)
            ELSE IF ~rf.ok THEN Err(rf.msg)
            ELSE Ok(FloatAdd(lf.v, rf.v))
    ELSE IF is_type("string", l) /\ is_type("string", r) THEN Ok(StringV(l.s \o r.s))
    ELSE Err("Addition not supported for types")

\* case SUB
Sub(l, r) ==
    IF is_type("int", l) /\ is_type("int", r) THEN Ok(IntV(l.i - r.i))
    ELSE IF is_type("float", l) \/ is_type("float", r) THEN
        LET lf == AsFloat(l)
            rf == AsFloat(r)
        IN  IF ~lf.ok THEN Err(lf.msg)
            ELSE IF ~rf.ok THEN Err(rf.msg)
            ELSE Ok(FloatSub(lf.v, rf.v))
    ELSE Err("Subtraction not supported for types")

\* case MUL
Mul(l, r) ==
    IF is_type("int", l) /\ is_type("int", r) THEN Ok(IntV(l.i * r.i))
    ELSE IF is_type("float", l) \/ is_type("float", r) THEN
        LET lf == AsFloat(l)
            rf == AsFloat(r)
        IN  IF ~lf.ok THEN Err(lf.msg)
            ELSE IF ~rf.ok THEN Err(rf.msg)
            ELSE Ok(FloatMul(lf.v, rf.v))
    ELSE Err("Multiplication not supported for types")

\* case DIV
Div(l, r) ==
    IF is_type("int", l) /\ is_type("int", r) THEN
        IF r.i = 0 THEN Err("Division by zero") ELSE Ok(IntV(CDiv(l.i, r.i)))
    ELSE IF is_type("float", l) \/ is_type("float", r) THEN
        LET lf == AsFloat(l)
            rf == AsFloat(r)
        IN  IF ~lf.ok THEN Err(lf.msg)
            ELSE IF ~rf.ok THEN Err(rf.msg)
            ELSE IF rf.v.n = 0 THEN Err("Division by zero")
            ELSE Ok(FloatDiv(lf.v, rf.v))
    ELSE Err("Division not supported for types")

\* case EQ: left_val == right_val
Eq(l, r) == Ok(BoolV(VariantEq(l, r)))

\* case NEQ: left_val != right_val
Neq(l, r) == Ok(BoolV(~VariantEq(l, r)))

\* case LT
Lt(l, r) ==
    IF is_type("int", l) /\ is_type("int", r) THEN Ok(BoolV(l.i < r.i))
    ELSE IF is_type("float", l) \/ is_type("float", r) THEN
        LET lf == AsFloat(l)
            rf == AsFloat(r)
        IN  IF ~lf.ok THEN Err(lf.msg)
            ELSE IF ~rf.ok THEN Err(rf.msg)
            ELSE Ok(BoolV(FloatLess(lf.v, rf.v)))
    ELSE IF is_type("string", l) /\ is_type("string", r) THEN Ok(BoolV(StringLess(l.s, r.s)))
    ELSE Err("Less than comparison not supported for types")

\* case GT
Gt(l, r) ==
    IF is_type("int", l) /\ is_type("int", r) THEN Ok(BoolV(l.i > r.i))
    ELSE IF is_type("float", l) \/ is_type("float", r) THEN
        LET lf == AsFloat(l)
            rf == AsFloat(r)
        IN  IF ~lf.ok THEN Err(lf.msg)
            ELSE IF ~rf.ok THEN Err(rf.msg)
            ELSE Ok(BoolV(FloatLess(rf.v, lf.v)))
    ELSE IF is_type("string", l) /\ is_type("string", r) THEN Ok(BoolV(StringLess(r.s, l.s)))
    ELSE Err("Greater than comparison not supported for types")

\* case LE
Le(l, r) ==
    IF is_type("int", l) /\ is_type("int", r) THEN Ok(BoolV(l.i <= r.i))
    ELSE IF is_type("float", l) \/ is_type("float", r) THEN
        LET lf == AsFloat(l)
            rf == AsFloat(r)
        IN  IF ~lf.ok THEN Err(lf.msg)
            ELSE IF ~rf.ok THEN Err(rf.msg)
            ELSE Ok(BoolV(~FloatLess(rf.v, lf.v)))
    ELSE IF is_type("string", l) /\ is_type("string", r) THEN Ok(BoolV(~StringLess(r.s, l.s)))
    ELSE Err("Less than or equal comparison not supported for types")

\* case GE
Ge(l, r) ==
    IF is_type("int", l) /\ is_type("int", r) THEN Ok(BoolV(l.i >= r.i))
    ELSE IF is_type("float", l) \/ is_type("float", r) THEN
        LET lf == AsFloat(l)
            rf == AsFloat(r)
        IN  IF ~lf.ok THEN Err(lf.msg)
            ELSE IF ~rf.ok THEN Err(rf.msg)
            ELSE Ok(BoolV(~FloatLess(lf.v, rf.v)))
    ELSE IF is_type("string", l) /\ is_type("string", r) THEN Ok(BoolV(~StringLess(l.s, r.s)))
    ELSE Err("Greater than or equal comparison not supported for types")

\* variant of And: a false left operand decides, the right one is not looked at
AndShortCircuit(l, r) ==
    IF is_type("bool", l) /\ ~l.b THEN Ok(BoolV(FALSE))
    ELSE IF is_type("bool", l) /\ is_type("bool", r) THEN Ok(BoolV(l.b /\ r.b))
    ELSE Err("Logical AND not supported for types")

\* case AND
And(l, r) ==
    IF is_type("bool", l) /\ is_type("bool", r) THEN Ok(BoolV(l.b /\ r.b))
    ELSE Err("Logical AND not supported for types")

\* case OR
Or(l, r) ==
    IF is_type("bool", l) /\ is_type("bool", r) THEN Ok(BoolV(l.b \/ r.b))
    ELSE Err("Logical OR not supported for types")

BinaryOps == {"ADD", "SUB", "MUL", "DIV", "EQ", "NEQ", "LT", "GT", "LE", "GE", "AND", "OR"}

\* the switch over the binary cases of evaluate_expression
ApplyBinary(op, l, r) ==
    CASE op = "ADD" -> Add(l, r)
      [] op = "SUB" -> Sub(l, r)
      [] op = "MUL" -> Mul(l, r)
      [] op = "DIV" -> Div(l, r)
      [] op = "EQ" -> Eq(l, r)
      [] op = "NEQ" -> Neq(l, r)
      [] op = "LT" -> Lt(l, r)
      [] op = "GT" -> Gt(l, r)
      [] op = "LE" -> Le(l, r)
      [] op = "GE" -> Ge(l, r)
      [] op = "AND" -> And(l, r)
      [] op = "OR" -> Or(l, r)


(***************************************************************************)
(* Containers on the heap: Values (std::vector<Value>) and ValueMap        *)
(* (std::unordered_map<std::string, Value>).                               *)
(***************************************************************************)
Values(elems) == [kind |-> "Values", elems |-> elems, map |-> EmptyMap]

ValueMap(map) == [kind |-> "ValueMap", elems |-> <<>>, map |-> map]

\* the names the model's programs use as variables and object keys, in the
\* order from which the two iteration orders of an unordered_map are taken
KeyUniverse == <<"a", "b", "i", "k", "msg", "n", "s", "t", "x", "xs", "y">>

Reverse(seq) == [k \in 1..Len(seq) |-> seq[Len(seq) + 1 - k]]

\* the order in which for (auto& [key, value] : map) visits the keys:
\* unspecified by the language, fixed by the build
unordered_order(keys, hash) ==
    LET asc == SelectSeq(KeyUniverse, LAMBDA k : k \in keys)
    IN  IF hash = "asc" THEN asc ELSE Reverse(asc)

(***************************************************************************)
(* JSON documents (nlohmann::json) and the two mappings of executor.h.     *)
(***************************************************************************)
JNull == [k |-> "null"]

JBool(b) == [k |-> "boolean", b |-> b]

JInt(i) == [k |-> "number_integer", i |-> i]

\* variant of JFloat: a float without a fractional part is stored as an integer
JFloatIntegral(n, d) ==
    IF d = 1 THEN [k |-> "number_integer", i |-> n]
    ELSE [k |-> "number_float", n |-> n, d |-> d]

JFloat(n, d) == [k |-> "number_float", n |-> n, d |-> d]

JString(s) == [k |-> "string", s |-> s]

JArray(elems) == [k |-> "array", elems |-> elems]

JObject(members) == [k |-> "object", members |-> members]

\* to_json(json&, const Value&) with to_json(Values) and to_json(ValueMap)
RECURSIVE to_json(_, _)
to_json(v, heap) ==
    CASE v.t = "int" -> JInt(v.i)
      [] v.t = "float" -> JFloat(v.n, v.d)
      [] v.t = "string" -> JString(v.s)
      [] v.t = "bool" -> JBool(v.b)
      [] v.t = "complex" ->
            CASE v.first = ArrayTag ->
                    LET vec == heap[v.second].elems
                    IN  JArray([k \in 1..Len(vec) |-> to_json(vec[k], heap)])
              [] v.first = ObjectTag ->
                    LET map == heap[v.second].map
                    IN  JObject([key \in DOMAIN map |-> to_json(map[key], heap)])
              [] OTHER -> JNull

\* value_to_string(const Value&) of executor.h: the document j.dump(4) prints
value_to_string(v, heap) == [kind |-> "json", dump |-> to_json(v, heap), indent |-> 4]

\* json_to_value, json_to_values, json_to_value_map
RECURSIVE json_to_value(_, _)
RECURSIVE json_to_values(_, _, _, _)
RECURSIVE json_to_value_map(_, _, _, _)
json_to_value(j, st) ==
    CASE j.k = "null" -> Returns(IntV(0), st)
      [] j.k = "boolean" -> Returns(BoolV(j.b), st)
      [] j.k = "number_integer" -> Returns(IntV(j.i), st)
      [] j.k = "number_float" -> Returns(FloatV(j.n, j.d), st)
      [] j.k = "string" -> Returns(StringV(j.s), st)
      [] j.k = "array" ->
            LET r == json_to_values(j.elems, 1, <<>>, st)
            IN  Returns(ComplexValue(ArrayTag, NewAddress(r.st)), Alloc(r.st, Values(r.val)))
      [] j.k = "object" ->
            LET keys == SelectSeq(KeyUniverse, LAMBDA key : key \in DOMAIN j.members)
                r == json_to_value_map(j.members, keys, EmptyMap, st)
            IN  Returns(ComplexValue(ObjectTag, NewAddress(r.st)), Alloc(r.st, ValueMap(r.val)))

json_to_values(elems, k, acc, st) ==
    IF k > Len(elems) THEN Returns(acc, st)
    ELSE LET r == json_to_value(elems[k], st)
         IN  json_to_values(elems, k + 1, Append(acc, r.val), r.st)

json_to_value_map(members, keys, acc, st) ==
    IF keys = <<>> THEN Returns(acc, st)
    ELSE LET r == json_to_value(members[Head(keys)], st)
         IN  json_to_value_map(members, Tail(keys), MapPut(acc, Head(keys), r.val), r.st)

\* http_get(url): the body the remote end answers, "" on any failure; the
\* body is either a JSON document or a text json::parse rejects
\* variant of NoReply: a failed request reads as the JSON document null
NoReplyAsNull == [valid |-> TRUE, doc |-> JNull]

NoReply == [valid |-> FALSE, doc |-> JNull]

http_get(url, net) == IF url \in DOMAIN net THEN net[url] ELSE NoReply

(***************************************************************************)
(* Executor::evaluate_expression and its helpers.                          *)
(***************************************************************************)
\* cast_to_array(array_val): the vector behind an array value
cast_to_array(array_val, heap) ==
    IF ~is_type("complex", array_val) THEN Err("Array access on non-array type")
    ELSE IF array_val.first # ArrayTag THEN Err("Array access on non-array type")
    ELSE Ok(heap[array_val.second].elems)

\* variant of get_array_element: an index past the end yields the null value
get_array_element_lenient(array_val, index, heap) ==
    IF ~is_type("complex", array_val) THEN Err("Array access on non-array type")
    ELSE IF array_val.first # ArrayTag THEN Err("Array access on non-array type")
    ELSE LET array == heap[array_val.second].elems
         IN  IF index >= Len(array) THEN Ok(IntV(NULL_VALUE))
             ELSE Ok(array[index + 1])

\* get_array_element(array_val, index), index a size_t
get_array_element(array_val, index, heap) ==
    IF ~is_type("complex", array_val) THEN Err("Array access on non-array type")
    ELSE IF array_val.first # ArrayTag THEN Err("Array access on non-array type")
    ELSE LET array == heap[array_val.second].elems
         IN  IF index >= Len(array) THEN Err("Array index out of bounds")
             ELSE Ok(array[index + 1])

\* variant of get_object_field: a key that is absent is an error
get_object_field_strict(object_val, index, heap) ==
    IF ~is_type("complex", object_val) THEN Err("Field access on non-object type")
    ELSE IF object_val.first # ObjectTag THEN Err("Field access on non-object type")
    ELSE LET obj == heap[object_val.second].map
         IN  IF index \in DOMAIN obj THEN Ok(obj[index]) ELSE Err("Field not found")

\* get_object_field(object_val, index): obj[index] on a copy of the map
get_object_field(object_val, index, heap) ==
    IF ~is_type("complex", object_val) THEN Err("Field access on non-object type")
    ELSE IF object_val.first # ObjectTag THEN Err("Field access on non-object type")
    ELSE LET obj == heap[object_val.second].map
         IN  IF index \in DOMAIN obj THEN Ok(obj[index]) ELSE Ok(DefaultValue)

\* Executor::evaluate_address_index
evaluate_address_index(expr) ==
    IF IsNull(expr) THEN Err("Null expression")
    ELSE CASE expr.op_type = "CONSTANT_INT" -> Ok(IntV(stoi(expr.value)))
           [] expr.op_type = "IDENTIFIER" -> Ok(StringV(expr.value))
           [] OTHER -> Err("unexpected op type in address index")

\* the result of an operation on evaluated operands, or its exception
Finish(res, st) == IF res.ok THEN Returns(res.v, st) ELSE Throw(st, res.msg)

RECURSIVE evaluate_expression(_, _)
RECURSIVE EvalElements(_, _, _, _)
RECURSIVE EvalMembers(_, _, _, _)
evaluate_expression(expr, st) ==
    IF IsNull(expr) THEN Throw(st, "Null expression")
    ELSE
    CASE expr.op_type = "CONSTANT_INT" -> Returns(IntV(stoi(expr.value)), st)
      [] expr.op_type = "CONSTANT_FLOAT" -> Returns(stof(expr.value), st)
      [] expr.op_type = "CONSTANT_STRING" -> Returns(StringV(expr.value), st)
      [] expr.op_type = "IDENTIFIER" ->
            IF expr.value \in DOMAIN st.variables
            THEN Returns(st.variables[expr.value], st)
            ELSE Returns(IntV(0), st)
      [] expr.op_type \in BinaryOps ->
            LET L == evaluate_expression(expr.left, st)
            IN  IF Aborted(L.st) THEN L
                ELSE LET R == evaluate_expression(expr.right, L.st)
                     IN  IF Aborted(R.st) THEN R
                         ELSE Finish(ApplyBinary(expr.op_type, L.val, R.val), R.st)
      [] expr.op_type = "NOT" ->
            LET V == evaluate_expression(expr.left, st)
            IN  IF Aborted(V.st) THEN V
                ELSE IF is_type("bool", V.val) THEN Returns(BoolV(~V.val.b), V.st)
                ELSE Throw(V.st, "Logical NOT not supported for type")
      [] expr.op_type = "ASSIGN" ->
            IF IsNull(expr.left) \/ expr.left.op_type # "IDENTIFIER"
            THEN Throw(st, "Invalid assignment target")
            ELSE LET V == evaluate_expression(expr.right, st)
                 IN  IF Aborted(V.st) THEN V
                     ELSE Returns(V.val,
                            [V.st EXCEPT !.variables = MapPut(@, expr.left.value, V.val)])
      [] expr.op_type = "ARRAY_LITERAL" ->
            LET array == NewAddress(st)
                E == EvalElements(expr.array_elements, 1, <<>>, Alloc(st, Values(<<>>)))
            IN  IF Aborted(E.st) THEN Throw(E.st, E.st.error)
                ELSE Returns(ComplexValue(ArrayTag, array),
                             [E.st EXCEPT !.heap[array] = Values(E.val)])
      [] expr.op_type = "ARRAY_ACCESS" ->
            IF IsNull(expr.left) \/ IsNull(expr.right)
            THEN Throw(st, "Invalid array access expression")
            ELSE LET A == evaluate_expression(expr.left, st)
                 IN  IF Aborted(A.st) THEN A
                     ELSE LET I == evaluate_expression(expr.right, A.st)
                          IN  IF Aborted(I.st) THEN I
                              ELSE IF ~is_type("int", I.val)
                              THEN Throw(I.st, "Array index must be an integer")
                              ELSE IF I.val.i < 0
                              THEN Throw(I.st, "Negative array index")
                              ELSE Finish(get_array_element(A.val, I.val.i, I.st.heap), I.st)
      [] expr.op_type = "DOT" ->
            IF IsNull(expr.left) \/ IsNull(expr.right)
            THEN Throw(st, "Invalid array access expression")
            ELSE LET O == evaluate_expression(expr.left, st)
                 IN  IF Aborted(O.st) THEN O
                     ELSE LET index_val == evaluate_address_index(expr.right)
                          IN  IF ~index_val.ok THEN Throw(O.st, index_val.msg)
                              ELSE IF is_type("int", index_val.v)
                              THEN IF index_val.v.i < 0
                                   THEN Returns(IntV(NULL_VALUE), O.st)
                                   ELSE Finish(get_array_element(O.val, index_val.v.i, O.st.heap), O.st)
                              ELSE IF is_type("string", index_val.v)
                              THEN Finish(get_object_field(O.val, index_val.v.s, O.st.heap), O.st)
                              ELSE Throw(O.st, "Index value must be int or string")
      [] expr.op_type = "OBJECT_LITERAL" ->
            LET val == NewAddress(st)
                keys == unordered_order(DOMAIN expr.object_members, st.hash)
                E == EvalMembers(expr.object_members, keys, EmptyMap, Alloc(st, ValueMap(EmptyMap)))
            IN  IF Aborted(E.st) THEN Throw(E.st, E.st.error)
                ELSE Returns(ComplexValue(ObjectTag, val),
                             [E.st EXCEPT !.heap[val] = ValueMap(E.val)])
      [] expr.op_type = "CURL" ->
            IF IsNull(expr.left) \/ IsNull(expr.right)
            THEN Throw(st, "Invalid curl expression")
            ELSE IF expr.left.op_type # "IDENTIFIER"
            THEN Throw(st, "Invalid assignment target")
            ELSE LET D == evaluate_expression(expr.left, st)
                     U == evaluate_expression(expr.right, D.st)
                 IN  IF Aborted(U.st) THEN U
                     ELSE IF ~is_type("string", U.val)
                     THEN Throw(U.st, "curl path must be a string")
                     ELSE LET ret == http_get(U.val.s, U.st.net)
                          IN  IF ~ret.valid THEN Returns(IntV(0), U.st)
                              ELSE LET J == json_to_value(ret.doc, U.st)
                                   IN  Returns(J.val,
                                         [J.st EXCEPT !.variables =
                                               MapPut(@, expr.left.value, J.val)])
      [] OTHER -> Throw(st, "Unsupported expression")

\* for (const auto& elem_node : expr->array_elements) array->push_back(evaluate ...)
EvalElements(elems, k, acc, st) ==
    IF k > Len(elems) THEN Returns(acc, st)
    ELSE LET V == evaluate_expression(elems[k], st)
         IN  IF Aborted(V.st) THEN Returns(acc, V.st)
             ELSE EvalElements(elems, k + 1, Append(acc, V.val), V.st)

\* for (const auto& [key, value] : expr->object_members) (*val)[key] = evaluate ...
EvalMembers(members, keys, acc, st) ==
    IF keys = <<>> THEN Returns(acc, st)
    ELSE LET V == evaluate_expression(members[Head(keys)], st)
         IN  IF Aborted(V.st) THEN Returns(acc, V.st)
             ELSE EvalMembers(members, Tail(keys), MapPut(acc, Head(keys), V.val), V.st)


(***************************************************************************)
(* Executor::execute_statement and Executor::execute_api.                  *)
(*                                                                         *)
(* History events appended to log:                                         *)
(*   enter / leave        a BLOCK starts / ends (normally or by its break) *)
(*   stmt                 a statement other than a BLOCK starts            *)
(*   return               a RETURN with an expression stored its value     *)
(*   for.exec / for.cond  FOR ran children[slot] / checked its condition   *)
(*   each.meet / each.body  EACH evaluated the condition / ran the body    *)
(***************************************************************************)
Hang(st) == [st EXCEPT !.hung = TRUE]

\* Executor::value_to_string (the member used by print)
PrintForm(val) ==
    CASE val.t = "int" -> [to_string |-> val]
      [] val.t = "float" -> [to_string |-> val]
      [] val.t = "string" -> [to_string |-> val.s]
      [] val.t = "bool" -> [to_string |-> IF val.b THEN "true" ELSE "false"]
      [] OTHER -> [to_string |-> "unknown"]

\* the state a failed operation leaves: the exception is in flight
Raise(st, msg) == [st EXCEPT !.error = msg]

\* variant of EachInnerStart: the inner loop starts at the outer index
EachInnerStartSame(i) == i

\* case EACH: for (auto j = i + 1; ...)
EachInnerStart(i) == i + 1

\* variant of ReturnNothing: a return without an expression sets return_
ReturnNothingEnds(st) == [st EXCEPT !.return_ = TRUE]

\* case RETURN when stmt->expr is null: the if has no else
ReturnNothing(st) == st

RECURSIVE execute_statement(_, _)
RECURSIVE ExecBlock(_, _, _)
RECURSIVE WhileLoop(_, _, _)
RECURSIVE ForLoop(_, _, _)
RECURSIVE EachLoop(_, _, _, _, _, _)
RECURSIVE EvalPrint(_, _, _, _)
execute_statement(stmt, st0) ==
    LET EndBlock(s1) == IF Aborted(s1) THEN s1 ELSE Log(s1, [e |-> "leave"])
        Branch(C) ==
            IF Aborted(C.st) THEN C.st
            ELSE IF ~is_type("bool", C.val)
            THEN Raise(C.st, "If condition must be a boolean")
            ELSE IF C.val.b
            THEN IF Len(stmt.children) > 0
                 THEN execute_statement(stmt.children[1], C.st)
                 ELSE C.st
            ELSE IF Len(stmt.children) >= 2
                 THEN execute_statement(stmt.children[2], C.st)
                 ELSE C.st
        Loop(s1) == IF Aborted(s1) THEN s1 ELSE ForLoop(stmt, s1, 0)
        Store(V) ==
            IF Aborted(V.st) THEN V.st
            ELSE Log([V.st EXCEPT !.result_ = V.val, !.return_ = TRUE],
                     [e |-> "return", val |-> V.val])
        Write(R) ==
            IF Aborted(R.st) THEN R.st
            ELSE [R.st EXCEPT !.out =
                    Append(@, [k \in 1..Len(R.val) |-> PrintForm(R.val[k])])]
        Pairs(s1, array_val) ==
            IF ~array_val.ok THEN Raise(s1, array_val.msg)
            ELSE EachLoop(stmt, array_val.v, stmt.expr.parameters, 0, EachInnerStart(0), s1)
        \* variables[expr->value]: operator[] inserts Value() when absent
        Lookup(s1) ==
            Pairs(s1, cast_to_array(s1.variables[stmt.expr.value], s1.heap))
        Exec(st) ==
            CASE stmt.stmt_type = "EXPRESSION" ->
                    IF IsNull(stmt.expr) THEN st ELSE evaluate_expression(stmt.expr, st).st
              [] stmt.stmt_type = "BLOCK" -> EndBlock(ExecBlock(stmt.children, 1, st))
              [] stmt.stmt_type = "IF" ->
                    IF IsNull(stmt.condition)
                    THEN Raise(st, "If statement missing condition")
                    ELSE Branch(evaluate_expression(stmt.condition, st))
              [] stmt.stmt_type = "WHILE" ->
                    IF IsNull(stmt.condition)
                    THEN Raise(st, "While statement missing condition")
                    ELSE WhileLoop(stmt, st, 0)
              [] stmt.stmt_type = "FOR" ->
                    Loop(IF Len(stmt.children) >= 1 /\ ~IsNull(stmt.children[1])
                         THEN execute_statement(stmt.children[1],
                                  Log(st, [e |-> "for.exec", slot |-> 0,
                                           node |-> stmt.children[1]]))
                         ELSE st)
              [] stmt.stmt_type = "RETURN" ->
                    IF IsNull(stmt.expr) THEN ReturnNothing(st)
                    ELSE Store(evaluate_expression(stmt.expr, st))
              [] stmt.stmt_type = "PRINT" -> Write(EvalPrint(stmt.exprs, 1, <<>>, st))
              [] stmt.stmt_type = "DECLARATION" ->
                    evaluate_expression(stmt.expr, st).st
              [] stmt.stmt_type = "EACH" ->
                    Lookup(IF stmt.expr.value \in DOMAIN st.variables THEN st
                           ELSE [st EXCEPT !.variables =
                                    MapPut(@, stmt.expr.value, DefaultValue)])
              [] stmt.stmt_type = "EMPTY" -> st
              [] OTHER -> Raise(st, "Unsupported statement")
    IN  IF IsNull(stmt) THEN st0
        ELSE Exec(Log(st0, IF stmt.stmt_type = "BLOCK" THEN [e |-> "enter"]
                           ELSE [e |-> "stmt", type |-> stmt.stmt_type]))

\* case BLOCK: for (child : children) { execute_statement(child);
\*                                       if (return_) { return_ = false; break; } }
ExecBlock(children, k, st) ==
    LET After(s1) ==
            IF Aborted(s1) THEN s1
            ELSE IF s1.return_ THEN [s1 EXCEPT !.return_ = FALSE]
            ELSE ExecBlock(children, k + 1, s1)
    IN  IF k > Len(children) THEN st
        ELSE After(execute_statement(children[k], st))

\* case WHILE: while (true) { condition; break unless boolean true; body }
WhileLoop(stmt, st, n) ==
    LET Again(s1) == IF Aborted(s1) THEN s1 ELSE WhileLoop(stmt, s1, n + 1)
        Body(C) ==
            IF Aborted(C.st) THEN C.st
            ELSE IF ~is_type("bool", C.val) \/ ~C.val.b THEN C.st
            ELSE Again(IF Len(stmt.children) > 0
                       THEN execute_statement(stmt.children[1], C.st)
                       ELSE C.st)
    IN  IF n > MaxIter THEN Hang(st)
        ELSE Body(evaluate_expression(stmt.condition, st))

\* case FOR, the loop: condition (when set), children[1], children[2]
ForLoop(stmt, st, n) ==
    LET Again(s2) == IF Aborted(s2) THEN s2 ELSE ForLoop(stmt, s2, n + 1)
        Second(s1) ==
            IF Aborted(s1) THEN s1
            ELSE Again(IF Len(stmt.children) >= 3 /\ ~IsNull(stmt.children[3])
                       THEN execute_statement(stmt.children[3],
                               Log(s1, [e |-> "for.exec", slot |-> 2,
                                        node |-> stmt.children[3]]))
                       ELSE s1)
        First(sc) ==
            Second(IF Len(stmt.children) >= 2 /\ ~IsNull(stmt.children[2])
                   THEN execute_statement(stmt.children[2],
                           Log(sc, [e |-> "for.exec", slot |-> 1,
                                    node |-> stmt.children[2]]))
                   ELSE sc)
        Checked(C, sc) ==
            IF Aborted(C.st) THEN C.st
            ELSE IF ~is_type("bool", C.val) \/ ~C.val.b THEN sc
            ELSE First(sc)
        Check(C) == Checked(C, Log(C.st, [e |-> "for.cond", val |-> C.val]))
    IN  IF n > MaxIter THEN Hang(st)
        ELSE Check(IF ~IsNull(stmt.condition)
                   THEN evaluate_expression(stmt.condition, st)
                   ELSE Returns(BoolV(TRUE), st))

\* case EACH, the two loops over a copy of the array:
\*   for (i = 0; i < size; i++) for (j = i + 1; j < size; j++) { ... }
EachLoop(stmt, array_val, params, i, j, st) ==
    LET Again(s3) ==
            IF Aborted(s3) THEN s3
            ELSE EachLoop(stmt, array_val, params, i, j + 1, s3)
        Met(C, sc) ==
            IF Aborted(C.st) THEN C.st
            ELSE IF ~is_type("bool", C.val) \/ ~C.val.b
            THEN EachLoop(stmt, array_val, params, i, j + 1, sc)
            ELSE Again(execute_statement(stmt.children[1],
                           Log(sc, [e |-> "each.body", i |-> i, j |-> j])))
        Meet(s2, C) ==
            Met(C, Log(C.st, [e |-> "each.meet", i |-> i, j |-> j,
                              p0 |-> s2.variables[params[1]],
                              p1 |-> s2.variables[params[2]], cond |-> C.val]))
        Bound(s2) == Meet(s2, evaluate_expression(stmt.condition, s2))
        Bind(s1) == Bound([s1 EXCEPT !.variables = MapPut(@, params[2], array_val[j + 1])])
    IN  IF i >= Len(array_val) THEN st
        ELSE IF j >= Len(array_val)
        THEN EachLoop(stmt, array_val, params, i + 1, EachInnerStart(i + 1), st)
        ELSE Bind([st EXCEPT !.variables = MapPut(@, params[1], array_val[i + 1])])

\* case PRINT: results.emplace_back(evaluate_expression(expr)) for every argument
EvalPrint(exprs, k, acc, st) ==
    LET More(V) ==
            IF Aborted(V.st) THEN Returns(acc, V.st)
            ELSE EvalPrint(exprs, k + 1, Append(acc, V.val), V.st)
    IN  IF k > Len(exprs) THEN Returns(acc, st)
        ELSE More(evaluate_expression(exprs[k], st))

\* an endpoint: APINode(path) with its port and body
APINode(path, port, body) == [path |-> path, port |-> port, body |-> body]

\* Executor::execute_api: run the body, then return result_
execute_api(api, st) == execute_statement(api.body, st)


(***************************************************************************)
(* Parser: the statements and the top level, from the parts of the source  *)
(* text that the parser reads in order.  A part the source leaves out is   *)
(* nullptr.                                                                *)
(***************************************************************************)
\* parse_statement, default case: an expression followed by ';'
ExpressionStmt(expr) == [StmtNode("EXPRESSION") EXCEPT !.expr = expr]

\* parse_block: '{' statements '}'
Block(children) == [StmtNode("BLOCK") EXCEPT !.children = children]

\* parse_if_statement: if ( cond ) stmt [ else stmt ]
parse_if_statement(cond, thenStmt, elseStmt) ==
    [StmtNode("IF") EXCEPT !.condition = cond,
        !.children = IF IsNull(elseStmt) THEN <<thenStmt>> ELSE <<thenStmt, elseStmt>>]

\* parse_while_statement: while ( cond ) stmt
parse_while_statement(cond, body) ==
    [StmtNode("WHILE") EXCEPT !.condition = cond, !.children = <<body>>]

\* parse_return_statement: return [ expr ] ;
parse_return_statement(expr) == [StmtNode("RETURN") EXCEPT !.expr = expr]

\* parse_for_statement: for ( [init-stmt] ; [cond] ; [step] ) body.
\* children receives, in this order, the init statement when there is one,
\* the step (wrapped in an EXPRESSION statement) when there is one, the body.
parse_for_statement(init, cond, step, body) ==
    LET c1 == IF ~IsNull(init) THEN <<init>> ELSE <<>>
        c2 == IF ~IsNull(step) THEN Append(c1, ExpressionStmt(step)) ELSE c1
    IN  [StmtNode("FOR") EXCEPT !.condition = cond, !.children = Append(c2, body)]

\* parse_in_expression: parameters 'in' identifier
parse_in_expression(params, name) ==
    [ExprNode("IN", name) EXCEPT !.parameters = params]

\* parse_each_statement: each <in-expression> meet cond block
parse_each_statement(params, name, cond, block) ==
    [StmtNode("EACH") EXCEPT !.expr = parse_in_expression(params, name),
        !.condition = cond, !.children = <<block>>]

\* variant of ParseItem: a listen directive also moves the endpoints parsed so far
ParseItemRebinding(item, acc) ==
    CASE item.kind = "api" ->
            [acc EXCEPT !.apis = Append(@, APINode(item.path, acc.port, item.body))]
      [] item.kind = "listen" ->
            [acc EXCEPT !.port = stoi(item.port),
                        !.apis = [k \in 1..Len(@) |-> [@[k] EXCEPT !.port = stoi(item.port)]]]

\* one turn of the loop of parse_program on the top-level item it reads:
\* 'listen' <int> sets the current port, 'api' <path> <block> appends an
\* endpoint carrying the current port
ParseItem(item, acc) ==
    CASE item.kind = "api" ->
            [acc EXCEPT !.apis = Append(@, APINode(item.path, acc.port, item.body))]
      [] item.kind = "listen" ->
            [acc EXCEPT !.port = stoi(item.port)]

RECURSIVE ParseItems(_, _, _)
ParseItems(items, k, acc) ==
    IF k > Len(items) THEN acc ELSE ParseItems(items, k + 1, ParseItem(items[k], acc))

\* Parser::parse_program: the ProgramNode, its apis in source order
parse_program(items) ==
    [apis |-> ParseItems(items, 1, [port |-> DefaultPort, apis |-> <<>>]).apis]

(***************************************************************************)
(* Lexer (lexer.cpp).  The text of a source file is the sequence of its    *)
(* words: a word is a maximal run that get_next_token reads as one token,  *)
(* or a newline character.  c is the class of the word's first character,  *)
(* by which get_next_token dispatches; s is the text of the word (for a    *)
(* quoted word, the text between the quotes).                              *)
(***************************************************************************)
Word(c, s) == [c |-> c, s |-> s]

Token(type, value) == [type |-> type, value |-> value]

\* Lexer::Lexer: keyword_map
keyword_map ==
    [w \in {"if", "else", "while", "for", "in", "meet", "each", "int", "float",
            "void", "return", "print", "api", "listen"} |->
        CASE w = "if" -> "KEYWORD_IF" [] w = "else" -> "KEYWORD_ELSE"
          [] w = "while" -> "KEYWORD_WHILE" [] w = "for" -> "KEYWORD_FOR"
          [] w = "in" -> "KEYWORD_IN" [] w = "meet" -> "KEYWORD_MEET"
          [] w = "each" -> "KEYWORD_EACH" [] w = "int" -> "KEYWORD_INT"
          [] w = "float" -> "KEYWORD_FLOAT" [] w = "void" -> "KEYWORD_VOID"
          [] w = "return" -> "KEYWORD_RETURN" [] w = "print" -> "KEYWORD_PRINT"
          [] w = "api" -> "KEYWORD_API" [] w = "listen" -> "KEYWORD_LISTEN"]

\* Lexer::process_identifier: a keyword of keyword_map, else IDENTIFIER
process_identifier(word) ==
    IF word.s \in DOMAIN keyword_map THEN Token(keyword_map[word.s], word.s)
    ELSE Token("IDENTIFIER", word.s)

\* Lexer::process_number: CONSTANT_FLOAT when a '.' or an exponent was read
process_number(word) ==
    IF \E k \in 1..Len(word.s) : word.s[k] \in {".", "e", "E"}
    THEN Token("CONSTANT_FLOAT", word.s)
    ELSE Token("CONSTANT_INTEGER", word.s)

\* Lexer::process_string
process_string(word) == Token("CONSTANT_STRING", word.s)

\* Lexer::process_operator_or_separator, the words that yield a token
operator_or_separator ==
    [w \in {"+", "-", "*", "/", "=", "==", "!", "!=", "<", "<=", "<-", ">", ">=",
            "&&", "||", "(", ")", "{", "}", "[", "]", ";", ":", ",", "."} |->
        CASE w = "+" -> "OP_PLUS" [] w = "-" -> "OP_MINUS"
          [] w = "*" -> "OP_MULTIPLY" [] w = "/" -> "OP_DIVIDE"
          [] w = "=" -> "OP_ASSIGN" [] w = "==" -> "OP_EQUALS"
          [] w = "!" -> "OP_NOT" [] w = "!=" -> "OP_NOT_EQUALS"
          [] w = "<" -> "OP_LESS" [] w = "<=" -> "OP_LESS_EQUALS"
          [] w = "<-" -> "OP_LEFT_ARROW"
          [] w = ">" -> "OP_GREATER" [] w = ">=" -> "OP_GREATER_EQUALS"
          [] w = "&&" -> "OP_LOGICAL_AND" [] w = "||" -> "OP_LOGICAL_OR"
          [] w = "(" -> "SEPARATOR_LPAREN" [] w = ")" -> "SEPARATOR_RPAREN"
          [] w = "{" -> "SEPARATOR_LBRACE" [] w = "}" -> "SEPARATOR_RBRACE"
          [] w = "[" -> "SEPARATOR_LBRACKET" [] w = "]" -> "SEPARATOR_RBRACKET"
          [] w = ";" -> "SEPARATOR_SEMICOLON" [] w = ":" -> "SEPARATOR_COLON"
          [] w = "," -> "SEPARATOR_COMMA" [] w = "." -> "SEPARATOR_DOT"]

\* Lexer::get_next_token on the words not yet read: the token and the words
\* left.  case '\n' of process_operator_or_separator reads on: a newline
\* yields no token.
RECURSIVE get_next_token(_)
get_next_token(words) ==
    IF words = <<>> THEN [token |-> Token("END_OF_FILE", ""), lexer |-> words]
    ELSE LET word == Head(words)
         IN  CASE word.c = "alpha" ->
                    [token |-> process_identifier(word), lexer |-> Tail(words)]
               [] word.c = "digit" ->
                    [token |-> process_number(word), lexer |-> Tail(words)]
               [] word.c = "quote" ->
                    [token |-> process_string(word), lexer |-> Tail(words)]
               [] word.c = "newline" -> get_next_token(Tail(words))
               [] word.s \in DOMAIN operator_or_separator ->
                    [token |-> Token(operator_or_separator[word.s], word.s),
                     lexer |-> Tail(words)]
               [] OTHER -> [token |-> Token("UNKNOWN", word.s), lexer |-> Tail(words)]

(***************************************************************************)
(* Parser (parser.cpp), on tokens.  A Parser is its lexer (the words not   *)
(* yet read), its current_token and, once error() was called, the message: *)
(* error() ends the process, nothing is parsed after it.                   *)
(***************************************************************************)
\* Parser::consume
consume(P) ==
    LET Take(r) == [P EXCEPT !.current_token = r.token, !.lexer = r.lexer]
    IN  IF P.error # "" THEN P ELSE Take(get_next_token(P.lexer))

\* Parser::Parser(Lexer&): current_token(UNKNOWN), then consume()
Parser(words) ==
    consume([lexer |-> words, current_token |-> Token("UNKNOWN", ""), error |-> ""])

\* Parser::error: the message is printed and exit(1) is called
error(P, message) == IF P.error # "" THEN P ELSE [P EXCEPT !.error = message]

Failed(P) == P.error # ""

\* Parser::expect
expect(P, type, message) ==
    LET ctype == IF P.current_token.type = "SEPARATOR_NEWLINE"
                 THEN "SEPARATOR_SEMICOLON" ELSE P.current_token.type
    IN  IF Failed(P) THEN P
        ELSE IF ctype # type THEN error(P, message)
        ELSE consume(P)

\* what a parse function returns, with the Parser as it leaves it
Parsed(node, P) == [node |-> node, P |-> P]

\* the OpType of the node a binary level builds for an operator token
OpTypeOf ==
    [t \in {"OP_ASSIGN", "OP_LOGICAL_OR", "OP_LOGICAL_AND", "OP_EQUALS", "OP_NOT_EQUALS",
            "OP_LESS", "OP_GREATER", "OP_LESS_EQUALS", "OP_GREATER_EQUALS",
            "OP_PLUS", "OP_MINUS", "OP_MULTIPLY", "OP_DIVIDE", "OP_LEFT_ARROW"} |->
        CASE t = "OP_ASSIGN" -> "ASSIGN" [] t = "OP_LOGICAL_OR" -> "OR"
          [] t = "OP_LOGICAL_AND" -> "AND" [] t = "OP_EQUALS" -> "EQ"
          [] t = "OP_NOT_EQUALS" -> "NEQ" [] t = "OP_LESS" -> "LT"
          [] t = "OP_GREATER" -> "GT" [] t = "OP_LESS_EQUALS" -> "LE"
          [] t = "OP_GREATER_EQUALS" -> "GE" [] t = "OP_PLUS" -> "ADD"
          [] t = "OP_MINUS" -> "SUB" [] t = "OP_MULTIPLY" -> "MUL"
          [] t = "OP_DIVIDE" -> "DIV" [] t = "OP_LEFT_ARROW" -> "CURL"]

\* op->left = left; consume(); op->right = <the next level>; left = op
Operation(L, R) ==
    Parsed(BinaryNode(OpTypeOf[L.P.current_token.type], L.node, R.node), R.P)

\* the key of an object member: the characters of the string token
RECURSIVE Chars(_)
Chars(s) == IF s = <<>> THEN "" ELSE Head(s) \o Chars(Tail(s))

\* variant of MultiplicativeOps: - is read at the level of * and /
MultiplicativeOpsWithMinus == {"OP_MULTIPLY", "OP_DIVIDE", "OP_MINUS"}

\* parse_multiplicative_expression: while (type == OP_MULTIPLY || type == OP_DIVIDE)
MultiplicativeOps == {"OP_MULTIPLY", "OP_DIVIDE"}

\* the left-associative binary levels, from the loosest to the tightest, by
\* the function that parses the level
Levels ==
    << "parse_logical_or_expression", "parse_logical_and_expression",
       "parse_equality_expression", "parse_relational_expression",
       "parse_additive_expression", "parse_multiplicative_expression",
       "parse_curl_expression" >>

\* the operator tokens of the while condition of each level
LevelOps ==
    << {"OP_LOGICAL_OR"}, {"OP_LOGICAL_AND"}, {"OP_EQUALS", "OP_NOT_EQUALS"},
       {"OP_LESS", "OP_GREATER", "OP_LESS_EQUALS", "OP_GREATER_EQUALS"},
       {"OP_PLUS", "OP_MINUS"}, MultiplicativeOps, {"OP_LEFT_ARROW"} >>

RECURSIVE parse_expression(_)
RECURSIVE parse_assignment_expression(_)
RECURSIVE parse_level(_, _)
RECURSIVE parse_level_loop(_, _)
RECURSIVE parse_level_return(_, _, _)
RECURSIVE parse_address_expression(_)
RECURSIVE parse_primary_expression(_)
parse_expression(P) == parse_assignment_expression(P)

\* Levels[k], for parse_logical_or_expression .. parse_curl_expression, which
\* share one body:
\*   left = <next level>();
\*   while (<the current token is an operator of the level>) {
\*       op = node of the operator; op->left = left; consume();
\*       op->right = <next level>(); left = op; }
\*   return left;
\* the level after parse_curl_expression is parse_primary_expression.  The
\* calls Levels[k] .. parse_curl_expression nest down to
\* parse_primary_expression before any token is read, and return in the
\* order parse_curl_expression .. Levels[k].
parse_level(k, P) == parse_level_return(k, Len(Levels), parse_primary_expression(P))

\* L is returned to Levels[j], which runs its while loop on it and returns to
\* Levels[j - 1], up to Levels[k]
parse_level_return(k, j, L) ==
    IF j < k \/ Failed(L.P) THEN L
    ELSE parse_level_return(k, j - 1, parse_level_loop(j, L))

\* the while loop of Levels[k], left parsed
parse_level_loop(k, L) ==
    IF L.P.error # "" \/ L.P.current_token.type \notin LevelOps[k] THEN L
    ELSE parse_level_loop(k, Operation(L, parse_level(k + 1, consume(L.P))))

parse_logical_or_expression(P) == parse_level(1, P)

parse_assignment_expression(P) ==
    LET Right(L) ==
            IF Failed(L.P) \/ L.P.current_token.type # "OP_ASSIGN" THEN L
            ELSE Operation(L, parse_assignment_expression(consume(L.P)))
    IN  Right(parse_logical_or_expression(P))

\* parse_address_expression: '[' expression ']' or '.' expression, as a node
\* whose left the caller sets; nullptr when neither follows
parse_address_expression(P) ==
    LET Index(R) ==
            Parsed([ExprNode("ARRAY_ACCESS", "") EXCEPT !.right = R.node],
                   expect(R.P, "SEPARATOR_RBRACKET",
                          "Expected closing bracket for array access"))
        Member(R) == Parsed([ExprNode("DOT", "") EXCEPT !.right = R.node], R.P)
    IN  CASE Failed(P) -> Parsed(nullptr, P)
          [] P.current_token.type = "SEPARATOR_LBRACKET" -> Index(parse_expression(consume(P)))
          [] P.current_token.type = "SEPARATOR_DOT" -> Member(parse_expression(consume(P)))
          [] OTHER -> Parsed(nullptr, P)

parse_primary_expression(P) ==
    LET tok == P.current_token
        Not(R) == Parsed([ExprNode("NOT", "") EXCEPT !.right = R.node], R.P)
        Close(R) ==
            Parsed(R.node, expect(R.P, "SEPARATOR_RPAREN", "Expected ')' after expression"))
        \* case SEPARATOR_LBRACKET: while (type != SEPARATOR_RBRACKET) { ... }
        RECURSIVE Elements(_, _)
        Elements(elems, Q) ==
            LET Pushed(R) ==
                    IF Failed(R.P) THEN R
                    ELSE IF R.P.current_token.type = "SEPARATOR_COMMA"
                    THEN Elements(Append(elems, R.node), consume(R.P))
                    ELSE IF R.P.current_token.type # "SEPARATOR_RBRACKET"
                    THEN Parsed(nullptr,
                                error(R.P, "Expected comma or closing bracket in array"))
                    ELSE Elements(Append(elems, R.node), R.P)
            IN  IF Q.current_token.type = "SEPARATOR_RBRACKET"
                THEN Parsed([ExprNode("ARRAY_LITERAL", "") EXCEPT !.array_elements = elems],
                            consume(Q))
                ELSE Pushed(parse_expression(Q))
        \* case SEPARATOR_LBRACE: while (type != SEPARATOR_RBRACE) { ... }
        RECURSIVE Members(_, _)
        Members(members, Q) ==
            LET Object(m, Q2) ==
                    Parsed([ExprNode("OBJECT_LITERAL", "") EXCEPT !.object_members = m],
                           consume(Q2))
                Put(key, R) ==
                    IF Failed(R.P) THEN R
                    ELSE IF R.P.current_token.type = "SEPARATOR_COMMA"
                    THEN Members(MapPut(members, key, R.node), consume(R.P))
                    ELSE IF R.P.current_token.type # "SEPARATOR_RBRACE"
                    THEN Parsed(nullptr,
                                error(R.P, "Expected comma or closing brace in object"))
                    ELSE Object(MapPut(members, key, R.node), R.P)
                Colon(key, Q2) ==
                    IF Q2.current_token.type # "SEPARATOR_COLON"
                    THEN Parsed(nullptr, error(Q2, "Expected colon after key in object"))
                    ELSE Put(key, parse_expression(consume(Q2)))
            IN  IF Q.current_token.type = "SEPARATOR_RBRACE" THEN Object(members, Q)
                ELSE IF Q.current_token.type # "CONSTANT_STRING"
                THEN Parsed(nullptr, error(Q, "Expected string literal as key in object"))
                ELSE Colon(Chars(Q.current_token.value), consume(Q))
        LeadingDot(R) ==
            IF Failed(R.P) THEN R
            ELSE IF R.node.op_type # "IDENTIFIER"
            THEN Parsed(nullptr, error(R.P, "Unexpected token in dot expression"))
            ELSE Parsed([ExprNode("DOT", "") EXCEPT !.left = R.node], R.P)
        \* case IDENTIFIER: while (true) { addr_node = parse_address_expression(); ... }
        RECURSIVE Suffixes(_, _)
        Suffixes(ident, Q) ==
            LET Accrete(A) ==
                    IF Failed(A.P) \/ IsNull(A.node) THEN Parsed(ident, A.P)
                    ELSE Suffixes([A.node EXCEPT !.left = ident], A.P)
            IN  Accrete(parse_address_expression(Q))
    IN  CASE Failed(P) -> Parsed(nullptr, P)
          [] tok.type = "CONSTANT_INTEGER" ->
                Parsed(ExprNode("CONSTANT_INT", tok.value), consume(P))
          [] tok.type = "CONSTANT_FLOAT" ->
                Parsed(ExprNode("CONSTANT_FLOAT", tok.value), consume(P))
          [] tok.type = "CONSTANT_STRING" ->
                Parsed(ExprNode("CONSTANT_STRING", tok.value), consume(P))
          [] tok.type = "OP_NOT" -> Not(parse_primary_expression(consume(P)))
          [] tok.type = "SEPARATOR_LPAREN" -> Close(parse_expression(consume(P)))
          [] tok.type = "SEPARATOR_LBRACKET" -> Elements(<<>>, consume(P))
          [] tok.type = "SEPARATOR_LBRACE" ->
                Members([key \in {} |-> nullptr], consume(P))
          [] tok.type = "SEPARATOR_DOT" -> LeadingDot(parse_primary_expression(consume(P)))
          [] tok.type = "IDENTIFIER" ->
                Suffixes(ExprNode("IDENTIFIER", tok.value), consume(P))
          [] OTHER -> Parsed(nullptr, error(P, "Unexpected token in primary expression"))

\* Parser::parse_parameters: identifiers separated by commas (node is the list)
parse_parameters(P) ==
    LET RECURSIVE Loop(_, _)
        Loop(params, Q) ==
            LET Named(Q2) ==
                    IF Q2.current_token.type # "SEPARATOR_COMMA"
                    THEN Parsed(Append(params, Q.current_token.value), Q2)
                    ELSE Loop(Append(params, Q.current_token.value), consume(Q2))
            IN  IF Q.current_token.type # "IDENTIFIER"
                THEN Parsed(params, error(Q, "Expected identifier in parameter list"))
                ELSE Named(consume(Q))
    IN  IF Failed(P) \/ P.current_token.type = "SEPARATOR_RPAREN" THEN Parsed(<<>>, P)
        ELSE Loop(<<>>, P)

\* Parser::parse_declaration, entered by parse_statement on KEYWORD_INT or
\* KEYWORD_FLOAT with that keyword still the current token
parse_declaration(P) ==
    LET name == P.current_token.value
        Initialised(R) ==
            Parsed([StmtNode("DECLARATION") EXCEPT
                       !.expr = BinaryNode("ASSIGN", ExprNode("IDENTIFIER", name), R.node)],
                   expect(R.P, "SEPARATOR_SEMICOLON", "Expected ';' after declaration"))
        Named(Q) ==
            IF Q.current_token.type = "OP_ASSIGN" THEN Initialised(parse_expression(consume(Q)))
            ELSE Parsed(StmtNode("DECLARATION"),
                        expect(Q, "SEPARATOR_SEMICOLON", "Expected ';' after declaration"))
    IN  IF Failed(P) THEN Parsed(nullptr, P)
        ELSE IF P.current_token.type # "IDENTIFIER"
        THEN Parsed(nullptr, error(P, "Expected identifier in declaration"))
        ELSE Named(consume(P))

RECURSIVE parse_statement(_)
RECURSIVE parse_block(_)
\* Parser::parse_statement with the statement parsers it dispatches to; the
\* nodes are built by parse_if_statement .. parse_each_statement above
parse_statement(P) ==
    LET t == P.current_token.type
        \* parse_if_statement
        IfBoth(C, T, E) == Parsed(parse_if_statement(C.node, T.node, E.node), E.P)
        IfElse(C, T) ==
            IF ~Failed(T.P) /\ T.P.current_token.type = "KEYWORD_ELSE"
            THEN IfBoth(C, T, parse_statement(consume(T.P)))
            ELSE Parsed(parse_if_statement(C.node, T.node, nullptr), T.P)
        IfThen(C) ==
            IfElse(C, parse_statement(
                          expect(C.P, "SEPARATOR_RPAREN", "Expected ')' after if condition")))
        \* parse_while_statement
        WhileDone(C, B) == Parsed(parse_while_statement(C.node, B.node), B.P)
        WhileBody(C) ==
            WhileDone(C, parse_statement(
                             expect(C.P, "SEPARATOR_RPAREN",
                                    "Expected ')' after while condition")))
        \* parse_for_statement
        ForDone(I, C, S, B) == Parsed(parse_for_statement(I.node, C.node, S.node, B.node), B.P)
        ForBody(I, C, S) ==
            ForDone(I, C, S, parse_statement(
                                 expect(S.P, "SEPARATOR_RPAREN",
                                        "Expected ')' after for loop conditions")))
        ForStep(I, C, Q) ==
            ForBody(I, C, IF ~Failed(Q) /\ Q.current_token.type # "SEPARATOR_RPAREN"
                          THEN parse_expression(Q) ELSE Parsed(nullptr, Q))
        ForCond(I, C) ==
            ForStep(I, C, expect(C.P, "SEPARATOR_SEMICOLON", "Expected ';' in for loop"))
        ForInit(I) ==
            ForCond(I, IF ~Failed(I.P) /\ I.P.current_token.type # "SEPARATOR_SEMICOLON"
                       THEN parse_expression(I.P) ELSE Parsed(nullptr, I.P))
        For(Q) ==
            ForInit(IF ~Failed(Q) /\ Q.current_token.type # "SEPARATOR_SEMICOLON"
                    THEN parse_statement(Q) ELSE Parsed(nullptr, consume(Q)))
        \* parse_each_statement with parse_in_expression
        EachDone(params, name, C, B) ==
            Parsed(parse_each_statement(params, name, C.node, B.node), B.P)
        EachBlock(params, name, C) == EachDone(params, name, C, parse_block(C.P))
        EachMeet(params, name, Q) ==
            EachBlock(params, name,
                      parse_expression(
                          expect(Q, "KEYWORD_MEET", "Expected 'meet' in for loop")))
        EachName(params, Q) ==
            EachMeet(params, Q.current_token.value,
                     expect(Q, "IDENTIFIER", "Expected identifier in declaration"))
        EachIn(R) == EachName(R.node, expect(R.P, "KEYWORD_IN", "Expected 'in' in for loop"))
        \* parse_return_statement
        ReturnDone(R) ==
            Parsed(parse_return_statement(R.node),
                   expect(R.P, "SEPARATOR_SEMICOLON", "Expected ';' after return"))
        Return(Q) ==
            ReturnDone(IF ~Failed(Q) /\ Q.current_token.type # "SEPARATOR_SEMICOLON"
                       THEN parse_expression(Q) ELSE Parsed(nullptr, Q))
        \* parse_print_statement
        RECURSIVE Arguments(_, _)
        Arguments(exprs, Q) ==
            LET More(R) ==
                    IF Failed(R.P) \/ R.P.current_token.type # "SEPARATOR_COMMA"
                    THEN Parsed([StmtNode("PRINT") EXCEPT !.exprs = Append(exprs, R.node)],
                                expect(R.P, "SEPARATOR_SEMICOLON", "Expected ';' after return"))
                    ELSE Arguments(Append(exprs, R.node), consume(R.P))
            IN  More(parse_expression(Q))
        \* default: an expression statement
        Expression(R) ==
            Parsed(ExpressionStmt(R.node),
                   expect(R.P, "SEPARATOR_SEMICOLON", "Expected ';' after expression"))
    IN  CASE Failed(P) -> Parsed(nullptr, P)
          [] t = "SEPARATOR_LBRACE" -> parse_block(P)
          [] t = "KEYWORD_IF" ->
                IfThen(parse_expression(
                           expect(expect(P, "KEYWORD_IF", "Expected 'if'"),
                                  "SEPARATOR_LPAREN", "Expected '(' after 'if'")))
          [] t = "KEYWORD_WHILE" ->
                WhileBody(parse_expression(
                              expect(expect(P, "KEYWORD_WHILE", "Expected 'while'"),
                                     "SEPARATOR_LPAREN", "Expected '(' after 'while'")))
          [] t = "KEYWORD_FOR" ->
                For(expect(expect(P, "KEYWORD_FOR", "Expected 'for'"),
                           "SEPARATOR_LPAREN", "Expected '(' after 'for'"))
          [] t = "KEYWORD_EACH" ->
                EachIn(parse_parameters(expect(P, "KEYWORD_EACH", "Expected 'each'")))
          [] t = "KEYWORD_RETURN" -> Return(expect(P, "KEYWORD_RETURN", "Expected 'return'"))
          [] t = "KEYWORD_PRINT" -> Arguments(<<>>, expect(P, "KEYWORD_PRINT", "Expected 'print'"))
          [] t \in {"KEYWORD_INT", "KEYWORD_FLOAT"} -> parse_declaration(P)
          [] t \in {"SEPARATOR_NEWLINE", "SEPARATOR_SEMICOLON"} ->
                Parsed(StmtNode("EMPTY"), consume(P))
          [] OTHER -> Expression(parse_expression(P))

\* Parser::parse_block: '{', statements until '}' or the end of the file, '}'
parse_block(P) ==
    LET RECURSIVE Loop(_, _)
        Loop(children, Q) ==
            LET Pushed(R) == Loop(Append(children, R.node), R.P)
            IN  IF Failed(Q) \/ Q.current_token.type \in {"SEPARATOR_RBRACE", "END_OF_FILE"}
                THEN Parsed(Block(children),
                            expect(Q, "SEPARATOR_RBRACE", "Expected '}' to end block"))
                ELSE Pushed(parse_statement(Q))
    IN  Loop(<<>>, expect(P, "SEPARATOR_LBRACE", "Expected '{' to start block"))

(***************************************************************************)
(* Executor::execute: the routing table port -> (path -> endpoint).        *)
(***************************************************************************)
\* variant of Route: a path that is in the table keeps its endpoint
RouteFirst(forPort, api) == MapPutAbsent(forPort, api.path, api)

\* table[api->path] = std::move(api): operator[] finds or creates the slot of
\* the path and the assignment replaces what it held
Route(forPort, api) == MapPut(forPort, api.path, api)

\* apisByPort[api->port][api->path] = std::move(api), for the apis in order
RECURSIVE BuildRouting(_, _, _)
BuildRouting(apis, k, table) ==
    IF k > Len(apis) THEN table
    ELSE LET api == apis[k]
             forPort == IF api.port \in DOMAIN table THEN table[api.port]
                        ELSE [path \in {} |-> api]
         IN  BuildRouting(apis, k + 1,
                 MapPut(table, api.port, Route(forPort, api)))

NoRouting == [port \in {} |-> 0]

apisByPortOf(program) == BuildRouting(program.apis, 1, NoRouting)


(***************************************************************************)
(* Source text of the programs the model runs.                             *)
(***************************************************************************)
\* parse_primary_expression on a literal or an identifier
IntLit(text) == ExprNode("CONSTANT_INT", text)

FloatLit(text) == ExprNode("CONSTANT_FLOAT", text)

StringLit(text) == ExprNode("CONSTANT_STRING", text)

Ident(name) == ExprNode("IDENTIFIER", name)

\* parse_primary_expression, '[' e, e, ... ']'
ArrayLit(elems) == [ExprNode("ARRAY_LITERAL", "") EXCEPT !.array_elements = elems]

\* parse_primary_expression, '{' "k": e, ... '}'
ObjectLit(members) == [ExprNode("OBJECT_LITERAL", "") EXCEPT !.object_members = members]

\* parse_address_expression applied to an identifier: name[index], name.index
Subscript(name, index) == BinaryNode("ARRAY_ACCESS", Ident(name), index)

Dot(name, index) == BinaryNode("DOT", Ident(name), index)

\* parse_assignment_expression: name = e
Assign(name, e) == BinaryNode("ASSIGN", Ident(name), e)

\* the digits of a small non-negative integer, as the lexer reads them
DigitChar(d) ==
    CASE d = 0 -> "0" [] d = 1 -> "1" [] d = 2 -> "2" [] d = 3 -> "3" [] d = 4 -> "4"
      [] d = 5 -> "5" [] d = 6 -> "6" [] d = 7 -> "7" [] d = 8 -> "8" [] d = 9 -> "9"

RECURSIVE Digits(_)
Digits(i) == IF i < 10 THEN <<DigitChar(i)>> ELSE Append(Digits(i \div 10), DigitChar(i % 10))

Num(i) == IntLit(Digits(i))

\* the language has no boolean literal: 1 == 1 and 1 == 2
TrueExpr == BinaryNode("EQ", Num(1), Num(1))

FalseExpr == BinaryNode("EQ", Num(1), Num(2))

\* { a = 2; b = 3; return a + b; }
SumBody ==
    Block(<<ExpressionStmt(Assign("a", Num(2))), ExpressionStmt(Assign("b", Num(3))),
            parse_return_statement(BinaryNode("ADD", Ident("a"), Ident("b")))>>)

\* { n = n + 1; return n; }
CountBody ==
    Block(<<ExpressionStmt(Assign("n", BinaryNode("ADD", Ident("n"), Num(1)))),
            parse_return_statement(Ident("n"))>>)

\* { return { "msg": "hi" }; }
HelloBody ==
    Block(<<parse_return_statement(
              ObjectLit([key \in {"msg"} |-> StringLit(<<"h", "i">>)]))>>)

\* { xs = [10, 20, 30]; return xs[5]; }
ArrBody ==
    Block(<<ExpressionStmt(Assign("xs", ArrayLit(<<Num(10), Num(20), Num(30)>>))),
            parse_return_statement(Subscript("xs", Num(5)))>>)

\* { x = 1; }
NoReturnBody == Block(<<ExpressionStmt(Assign("x", Num(1)))>>)

\* { x = 7; return; }
BareReturnBody ==
    Block(<<ExpressionStmt(Assign("x", Num(7))), parse_return_statement(nullptr)>>)

\* a top-level item of the source text: listen <int> (number is the integer
\* the digits were written for) and api "<path>" <block>
Listen(port) ==
    [kind |-> "listen", port |-> Digits(port), number |-> port, path |-> "", body |-> nullptr]

Api(path, body) == [kind |-> "api", port |-> <<>>, number |-> 0, path |-> path, body |-> body]

\* the programs the server is booted with
Sources ==
    { <<Listen(8015), Api("/hello", HelloBody), Api("/cnt", CountBody),
        Listen(9000), Api("/hello", SumBody), Api("/arr", ArrBody)>>,
      <<Api("/sum", SumBody), Api("/none", NoReturnBody), Api("/bare", BareReturnBody),
        Listen(8015), Api("/cnt", CountBody)>>,
      <<Listen(8015), Api("/hello", HelloBody), Api("/hello", SumBody),
        Listen(9000), Api("/hello", CountBody)>> }

\* the request targets clients send
Targets == {"/hello", "/cnt", "/arr", "/sum", "/none", "/bare", "/nope"}

NoNet == [url \in {} |-> NoReply]

(***************************************************************************)
(* State.                                                                  *)
(*   source      the top-level items of the program the server runs        *)
(*   phase       "boot" before Executor::execute built the table           *)
(*   apisByPort  the routing table; each port in it has a Listener         *)
(*   alive       the server process is running                             *)
(*   sessions    the Sessions created by on_accept, by order of accept     *)
(*   executors   the Executor objects: 0 is the global `executor`,         *)
(*               s > 0 the one local to the worker job of session s        *)
(*   heap        the containers allocated by all evaluations               *)
(*   pool        per port, the jobs posted to http_thread_pool_            *)
(*   accepting   the ports whose Listener has an async_accept outstanding  *)
(*   input, output, done   an evaluator or a parser run on its own         *)
(***************************************************************************)
VARIABLES source, phase, apisByPort, alive, sessions, executors, heap, pool,
          accepting, input, output, done

vars == <<source, phase, apisByPort, alive, sessions, executors, heap, pool,
          accepting, input, output, done>>

serverVars == <<source, phase, apisByPort, alive, sessions, executors, heap, pool,
                accepting>>

unitVars == <<input, output, done>>

JsonContentType == "application/json; charset=utf-8"

NoResponse == [status |-> 0, content_type |-> "", body |-> [kind |-> "none"]]

\* Session(socket, port, apis, thread_pool), then run(): async_read pending
NewSession(p) ==
    [port |-> p, state |-> "reading", target |-> "", res |-> NoResponse, pc |-> 0]

\* an Executor as the server stores it; its view of the heap is the variable heap
Stored(st) == [st EXCEPT !.heap = <<>>]

\* variant of ExecutorOf: every job evaluates with the global `executor`
ExecutorOfGlobal(s) == 0

\* the Executor a worker job evaluates with: `Executor executor;` local to the job
ExecutorOf(s) == s

\* variant of ApisOf: the endpoints of all ports in one table
ApisOfAllPorts(table, p) ==
    LET paths == UNION {DOMAIN table[q] : q \in DOMAIN table}
    IN  [path \in paths |-> table[CHOOSE q \in DOMAIN table : path \in DOMAIN table[q]][path]]

\* Session::apis_: the table of the Listener that accepted the connection
ApisOf(table, p) == table[p]

NoInput == [family |-> "none"]

NoOutput == Returns(DefaultValue, NewExecutor(<<>>, NoNet, "asc"))

UnitIdle == input = NoInput /\ output = NoOutput /\ done = FALSE

Init ==
    /\ source \in Sources
    /\ phase = "boot"
    /\ apisByPort = NoRouting
    /\ alive = TRUE
    /\ sessions = <<>>
    /\ executors = [e \in 0..MaxSessions |-> Stored(NewExecutor(<<>>, NoNet, "asc"))]
    /\ heap = <<>>
    /\ pool = NoRouting
    /\ accepting = {}
    /\ UnitIdle

\* main: parse_program, then Executor::execute up to listener->run()
Boot ==
    /\ phase = "boot"
    /\ phase' = "serving"
    /\ apisByPort' = apisByPortOf(parse_program(source))
    /\ pool' = [p \in DOMAIN apisByPort' |-> <<>>]
    /\ accepting' = DOMAIN apisByPort'
    /\ UNCHANGED <<source, alive, sessions, executors, heap, unitVars>>

\* variant of post: the job is run in place, by the thread that read the request
post_inline(s) == "io"

\* net::post(thread_pool_, job): the job of session s is handed to a worker
\* of the pool and handle_request returns
post(s) == "pool"

\* the one thread in ioc.run() is between handlers: no handler has a job to
\* run through
io_idle ==
    \A s \in 1..Len(sessions) :
        post(s) = "io" => sessions[s].state \notin {"queued", "running", "hung"}

\* completion of the async_accept of an open acceptor: with an error fail()
\* reports it, without one a Session is created and run; then do_accept()
\* issues the next accept
on_accept(p, ec) ==
    /\ phase = "serving" /\ alive /\ io_idle
    /\ p \in accepting
    /\ IF ec
       THEN UNCHANGED sessions
       ELSE /\ Len(sessions) + 1 \in DOMAIN executors
            /\ sessions' = Append(sessions, NewSession(p))
    /\ accepting' = (accepting \ {p}) \cup {p}
    /\ UNCHANGED <<source, phase, apisByPort, alive, executors, heap, pool, unitVars>>

\* res_ = response{ok, version}; res_.set(content_type, ...)
ok_response ==
    [status |-> 200, content_type |-> JsonContentType, body |-> [kind |-> "none"]]

\* variant of not_found: the 404 is a response of its own, without the headers
not_found_fresh(res, p) ==
    [status |-> 404, content_type |-> "",
     body |-> [kind |-> "text", text |-> "Not Found (on port ", port |-> p]]

\* res_.result(not_found); res_.body() = "Not Found (on port <p>)"
not_found(res, p) ==
    [res EXCEPT !.status = 404,
                !.body = [kind |-> "text", text |-> "Not Found (on port ", port |-> p]]

\* Session::handle_request, on the I/O thread: the response is initialised
\* and the job is posted to the pool of the port
handle_request(s, target) ==
    /\ alive /\ io_idle
    /\ sessions[s].state = "reading"
    /\ sessions' = [sessions EXCEPT ![s].state = "queued", ![s].target = target,
                       ![s].res = ok_response]
    /\ pool' = [pool EXCEPT ![sessions[s].port] = Append(@, s)]
    /\ UNCHANGED <<source, phase, apisByPort, alive, executors, heap, accepting, unitVars>>

Busy(p) == {r \in 1..Len(sessions) :
                sessions[r].port = p /\ sessions[r].state \in {"running", "hung"}}

\* the posted job starts on a free worker: apis_.find(target); on a hit the
\* Executor is constructed, on a miss the 404 is prepared and written
WorkerLookup(s) ==
    LET p == sessions[s].port
        apis_ == ApisOf(apisByPort, p)
    IN  /\ alive
        /\ sessions[s].state = "queued"
        /\ pool[p] # <<>> /\ Head(pool[p]) = s
        /\ Cardinality(Busy(p)) < PoolSize
        /\ pool' = [pool EXCEPT ![p] = Tail(@)]
        /\ IF sessions[s].target \in DOMAIN apis_
           THEN /\ executors' = [executors EXCEPT
                                   ![ExecutorOf(s)] = Stored(NewExecutor(<<>>, NoNet, "asc"))]
                /\ sessions' = [sessions EXCEPT ![s].state = "running", ![s].pc = 1]
           ELSE /\ sessions' = [sessions EXCEPT ![s].state = "writing",
                                   ![s].res = not_found(@, p)]
                /\ UNCHANGED executors
        /\ UNCHANGED <<source, phase, apisByPort, alive, heap, accepting, unitVars>>

\* the job runs the next statement of the endpoint body (one turn of the
\* BLOCK loop under execute_api).  An ExecutionError leaves the job: nothing
\* catches it and the process terminates.
WorkerStep(s) ==
    LET p == sessions[s].port
        api == ApisOf(apisByPort, p)[sessions[s].target]
        children == api.body.children
        ex == ExecutorOf(s)
        Outcome(s1) ==
            /\ heap' = s1.heap
            /\ IF s1.error # ""
               THEN /\ alive' = FALSE
                    /\ executors' = [executors EXCEPT ![ex] = Stored(s1)]
                    /\ sessions' = [sessions EXCEPT ![s].state = "failed"]
               ELSE IF s1.hung
               THEN /\ executors' = [executors EXCEPT ![ex] = Stored(s1)]
                    /\ sessions' = [sessions EXCEPT ![s].state = "hung"]
                    /\ UNCHANGED alive
               ELSE IF s1.return_
               THEN /\ executors' = [executors EXCEPT
                                       ![ex] = Stored([s1 EXCEPT !.return_ = FALSE])]
                    /\ sessions' = [sessions EXCEPT ![s].pc = Len(children) + 1]
                    /\ UNCHANGED alive
               ELSE /\ executors' = [executors EXCEPT ![ex] = Stored(s1)]
                    /\ sessions' = [sessions EXCEPT ![s].pc = @ + 1]
                    /\ UNCHANGED alive
    IN  /\ alive
        /\ sessions[s].state = "running"
        /\ sessions[s].pc <= Len(children)
        /\ Outcome(execute_statement(children[sessions[s].pc],
                                     [executors[ex] EXCEPT !.heap = heap]))
        /\ UNCHANGED <<source, phase, apisByPort, pool, accepting, unitVars>>

\* the body is over: execute_api returns result_, the job serialises it,
\* prepares the payload and starts the asynchronous write
WorkerFinish(s) ==
    LET p == sessions[s].port
        api == ApisOf(apisByPort, p)[sessions[s].target]
    IN  /\ alive
        /\ sessions[s].state = "running"
        /\ sessions[s].pc > Len(api.body.children)
        /\ sessions' = [sessions EXCEPT ![s].state = "writing",
                           ![s].res.body = value_to_string(executors[ExecutorOf(s)].result_, heap)]
        /\ UNCHANGED <<source, phase, apisByPort, alive, executors, heap, pool, accepting, unitVars>>

\* completion of async_write: on an error the session ends, otherwise the
\* client has the response and the socket is shut down for sending
on_write(s, ec) ==
    /\ alive /\ io_idle
    /\ sessions[s].state = "writing"
    /\ sessions' = [sessions EXCEPT ![s].state = IF ec THEN "dropped" ELSE "done"]
    /\ UNCHANGED <<source, phase, apisByPort, alive, executors, heap, pool, accepting, unitVars>>

Next ==
    \/ Boot
    \/ \E p \in DOMAIN apisByPort, ec \in BOOLEAN : on_accept(p, ec)
    \/ \E s \in 1..Len(sessions), target \in Targets : handle_request(s, target)
    \/ \E s \in 1..Len(sessions) : WorkerLookup(s)
    \/ \E s \in 1..Len(sessions) : WorkerStep(s)
    \/ \E s \in 1..Len(sessions) : WorkerFinish(s)
    \/ \E s \in 1..Len(sessions), ec \in BOOLEAN : on_write(s, ec)

Spec == Init /\ [][Next]_vars

(***************************************************************************)
(* The server under load: one port whose pool has all workers but one in   *)
(* an endpoint body that never finishes, and the connections that arrive   *)
(* then.                                                                   *)
(***************************************************************************)
\* { while (1 == 1) { } }
SpinBody == Block(<<parse_while_statement(TrueExpr, Block(<<>>))>>)

PoolSource == <<Listen(8015), Api("/spin", SpinBody), Api("/sum", SumBody)>>

PoolTargets == {"/spin", "/sum", "/nope"}

\* the connections of a run: those that hold a worker at the start and
\* those accepted afterwards
MaxClients == PoolSize - 1 + MaxSessions

\* the Executor of a job that entered the while statement of SpinBody
Spinning ==
    Stored(execute_statement(SpinBody.children[1], NewExecutor(<<>>, NoNet, "asc")))

\* the state PoolSize - 1 requests for /spin leave: each was accepted, read,
\* posted and taken by a worker, which is in the loop
InitPool ==
    /\ source = PoolSource
    /\ phase = "serving"
    /\ apisByPort = apisByPortOf(parse_program(PoolSource))
    /\ alive = TRUE
    /\ sessions = [s \in 1..(PoolSize - 1) |->
                      [NewSession(8015) EXCEPT !.state = "hung", !.target = "/spin",
                                               !.res = ok_response, !.pc = 1]]
    /\ executors = [e \in 0..MaxClients |->
                       IF e \in 1..(PoolSize - 1) THEN Spinning
                       ELSE Stored(NewExecutor(<<>>, NoNet, "asc"))]
    /\ heap = <<>>
    /\ pool = [p \in DOMAIN apisByPort |-> <<>>]
    /\ accepting = DOMAIN apisByPort
    /\ UnitIdle

NextPool ==
    \/ \E p \in DOMAIN apisByPort, ec \in BOOLEAN : on_accept(p, ec)
    \/ \E s \in 1..Len(sessions), target \in PoolTargets : handle_request(s, target)
    \/ \E s \in 1..Len(sessions) : WorkerLookup(s)
    \/ \E s \in 1..Len(sessions) : WorkerStep(s)
    \/ \E s \in 1..Len(sessions) : WorkerFinish(s)
    \/ \E s \in 1..Len(sessions), ec \in BOOLEAN : on_write(s, ec)

\* a worker has a job whose body is not over or not yet serialised
Working == \E s \in 1..Len(sessions) : sessions[s].state = "running"

\* a step of such a job: WorkerStep and WorkerFinish are the only actions
\* that change the session of a running job
Advance ==
    \E s \in 1..Len(sessions) :
        sessions[s].state = "running" /\ sessions'[s] # sessions[s]

\* net::thread_pool: a posted job is started once a worker is free and it is
\* first in the queue, and a worker that has a job keeps running it.  The
\* second conjunct is weak fairness of WorkerStep \/ WorkerFinish, which is
\* enabled exactly when Working holds, written without ENABLED.
PoolFairness ==
    /\ WF_vars(\E s \in 1..Len(sessions) : WorkerLookup(s))
    /\ ([]<>(~Working) \/ []<><<Advance>>_vars)

SpecPool == InitPool /\ [][NextPool]_vars /\ PoolFairness


(***************************************************************************)
(* The evaluator and the parser run on their own: an input is drawn, the   *)
(* operation is applied to it once, the outcome is kept in output.         *)
(***************************************************************************)
ServerOff ==
    /\ source = <<>>
    /\ phase = "off"
    /\ apisByPort = NoRouting
    /\ alive = TRUE
    /\ sessions = <<>>
    /\ executors = [e \in 0..MaxSessions |-> Stored(NewExecutor(<<>>, NoNet, "asc"))]
    /\ heap = <<>>
    /\ pool = NoRouting
    /\ accepting = {}

\* operands of every type of the value model
OperandExprs ==
    { Num(0), Num(1), Num(3),
      FloatLit(<<"0", ".", "0">>), FloatLit(<<"1", ".", "0">>), FloatLit(<<"2", ".", "5">>),
      StringLit(<<"a">>), StringLit(<<"a", "b">>),
      TrueExpr, FalseExpr,
      ArrayLit(<<Num(1)>>), ObjectLit([key \in {"k"} |-> Num(1)]) }

BinaryInputs ==
    { [family |-> "binary", expr |-> BinaryNode(op, l, r)] :
        op \in BinaryOps, l \in OperandExprs, r \in OperandExprs }

\* xs = [10, 20, ...] (len elements); return xs[index] or return xs.index
IndexInputs ==
    { [family |-> "index", form |-> f, len |-> n, index |-> i] :
        f \in {"bracket", "dot"}, n \in 0..MaxLen, i \in (-2)..(MaxLen + 1) }

\* the index as the source can write it under [ ]: a digit run, or 0 - digits
IndexExpr(i) == IF i < 0 THEN BinaryNode("SUB", Num(0), Num(-i)) ELSE Num(i)

\* the index node under a dot: CONSTANT_INT carrying the text of the integer
\* (evaluate_address_index reads it with std::stoi, sign included)
IndexLiteral(i) == IF i < 0 THEN IntLit(<<"-">> \o Digits(-i)) ELSE Num(i)

IndexProgram(in) ==
    Block(<<ExpressionStmt(Assign("xs", ArrayLit([k \in 1..in.len |-> Num(10 * k)]))),
            parse_return_statement(
                IF in.form = "bracket" THEN Subscript("xs", IndexExpr(in.index))
                ELSE Dot("xs", IndexLiteral(in.index)))>>)

\* each a, b in xs meet <cond> <body>, over arrays of up to MaxLen elements
EachElems == {Num(1), Num(2), Num(3), TrueExpr, StringLit(<<"a">>)}

EachConds ==
    { BinaryNode("EQ", BinaryNode("ADD", Ident("a"), Ident("b")), Num(3)),
      Ident("a"),
      BinaryNode("NEQ", Ident("a"), Ident("b")) }

EachBodies ==
    { Block(<<ExpressionStmt(Assign("t", BinaryNode("ADD", Ident("t"), Num(1))))>>),
      Block(<<ExpressionStmt(Assign("xs", Num(0))),
              ExpressionStmt(Assign("a", Ident("b")))>>) }

EachInputs ==
    { [family |-> "each", elems |-> e, cond |-> c, body |-> b] :
        e \in UNION {[1..n -> EachElems] : n \in 0..MaxLen},
        c \in EachConds, b \in EachBodies }

EachProgram(in) ==
    Block(<<ExpressionStmt(Assign("xs", ArrayLit(in.elems))),
            parse_each_statement(<<"a", "b">>, "xs", in.cond, in.body)>>)

\* for ( [i = 0;] ; [i < 2] ; [i = i + 1] ) <body>
ForInits == {nullptr, ExpressionStmt(Assign("i", Num(0)))}

ForConds == {nullptr, BinaryNode("LT", Ident("i"), Num(2))}

ForSteps == {nullptr, Assign("i", BinaryNode("ADD", Ident("i"), Num(1)))}

ForBodies ==
    { Block(<<ExpressionStmt(Assign("n", BinaryNode("ADD", Ident("n"), Num(1))))>>),
      ExpressionStmt(Assign("s", BinaryNode("ADD", Ident("s"), Ident("i")))) }

ForInputs ==
    { [family |-> "for", init |-> i, cond |-> c, step |-> s, body |-> b] :
        i \in ForInits, c \in ForConds, s \in ForSteps, b \in ForBodies }

ForProgram(in) == Block(<<parse_for_statement(in.init, in.cond, in.step, in.body)>>)

\* endpoint bodies with a return inside nested blocks
ReturnStmt(i) == parse_return_statement(Num(i))

NestedPrograms ==
    { \* { if (c) { return 1; } return 2; }
      Block(<<parse_if_statement(TrueExpr, Block(<<ReturnStmt(1)>>), nullptr), ReturnStmt(2)>>),
      Block(<<parse_if_statement(FalseExpr, Block(<<ReturnStmt(1)>>), nullptr), ReturnStmt(2)>>),
      \* { if (c) { x = 4; } else { return 1; } return 2; }
      Block(<<parse_if_statement(FalseExpr, Block(<<ExpressionStmt(Assign("x", Num(4)))>>),
                                 Block(<<ReturnStmt(1)>>)), ReturnStmt(2)>>),
      \* { { return 1; } x = 5; return x; }
      Block(<<Block(<<ReturnStmt(1)>>), ExpressionStmt(Assign("x", Num(5))),
              parse_return_statement(Ident("x"))>>),
      \* { { return 1; } x = 5; }
      Block(<<Block(<<ReturnStmt(1)>>), ExpressionStmt(Assign("x", Num(5)))>>),
      \* { if (1 == 1) { if (1 == 1) { return 1; } x = 7; } return 3; }
      Block(<<parse_if_statement(TrueExpr,
                Block(<<parse_if_statement(TrueExpr, Block(<<ReturnStmt(1)>>), nullptr),
                        ExpressionStmt(Assign("x", Num(7)))>>), nullptr),
              ReturnStmt(3)>>),
      \* { return 1; return 2; }
      Block(<<ReturnStmt(1), ReturnStmt(2)>>),
      \* { if (1 == 1) return 1; return 2; }
      Block(<<parse_if_statement(TrueExpr, ReturnStmt(1), nullptr), ReturnStmt(2)>>) }

NestedInputs == { [family |-> "nested", body |-> b] : b \in NestedPrograms }

\* a loop whose body is a return statement, bare or in braces:
\*   { while (1 == 1) <body> }
\*   { for (i = 0; i < 2; i = i + 1) <body> }
\*   { xs = [1, 2, 3]; each a, b in xs meet a < b <body> }
\* with <body> one of   return <e>;   { return <e>; }   and <e> an integer or
\* the variable the loop advances
LoopInputs ==
    { [family |-> "loop", loop |-> loop, braces |-> braces, e |-> e] :
        loop \in {"while", "for", "each"}, braces \in BOOLEAN, e \in {"literal", "variable"} }

LoopProgram(in) ==
    LET e == CASE in.e = "literal" -> Num(7)
               [] in.loop = "each" -> Ident("a")
               [] OTHER -> Ident("i")
        body == IF in.braces THEN Block(<<parse_return_statement(e)>>)
                ELSE parse_return_statement(e)
    IN  CASE in.loop = "while" -> Block(<<parse_while_statement(TrueExpr, body)>>)
          [] in.loop = "for" ->
                Block(<<parse_for_statement(
                          ExpressionStmt(Assign("i", Num(0))),
                          BinaryNode("LT", Ident("i"), Num(2)),
                          Assign("i", BinaryNode("ADD", Ident("i"), Num(1))), body)>>)
          [] in.loop = "each" ->
                Block(<<ExpressionStmt(Assign("xs", ArrayLit(<<Num(1), Num(2), Num(3)>>))),
                        parse_each_statement(<<"a", "b">>, "xs",
                            BinaryNode("LT", Ident("a"), Ident("b")), body)>>)

ApiInputs == IndexInputs \cup EachInputs \cup ForInputs \cup NestedInputs \cup LoopInputs

\* x <- e: the url operand, what the remote end answers for the url "u"
\* (nothing, a text that is not JSON, a JSON document) and x bound or not
FetchDocs ==
    { JNull, JBool(TRUE), JInt(7), JFloat(5, 2), JString(<<"o", "k">>),
      JArray(<<JInt(1), JString(<<"a">>)>>), JArray(<<>>),
      JObject([key \in {"k"} |-> JArray(<<JInt(1)>>)]) }

FetchNets ==
    {NoNet, [url \in {<<"u">>} |-> [valid |-> FALSE, doc |-> JNull]]}
        \cup { [url \in {<<"u">>} |-> [valid |-> TRUE, doc |-> doc]] : doc \in FetchDocs }

FetchInputs ==
    { [family |-> "fetch", expr |-> BinaryNode("CURL", Ident("x"), e),
       variables |-> env, net |-> net] :
        e \in {StringLit(<<"u">>), Num(1), FloatLit(<<"2", ".", "5">>), TrueExpr,
               ArrayLit(<<StringLit(<<"u">>)>>), Ident("y")},
        env \in {EmptyMap, [name \in {"x"} |-> IntV(5)]},
        net \in FetchNets }

\* the literals from which the Values of the JSON round trip are built
\* compound values built by a literal or decoded from the body of a fetch:
\*   []   [1, 2]   [2, 1]   [[1]]   {}   {"a": 1}   {"a": 2}   {"a": 1, "b": 2}
\*   <name> <- "u"
CompoundExprs(name) ==
    << ArrayLit(<<>>), ArrayLit(<<Num(1), Num(2)>>), ArrayLit(<<Num(2), Num(1)>>),
       ArrayLit(<<ArrayLit(<<Num(1)>>)>>), ObjectLit(<<>>),
       ObjectLit([key \in {"a"} |-> Num(1)]), ObjectLit([key \in {"a"} |-> Num(2)]),
       ObjectLit([key \in {"a", "b"} |-> IF key = "a" THEN Num(1) ELSE Num(2)]),
       BinaryNode("CURL", Ident(name), StringLit(<<"u">>)) >>

\* the documents the remote end answers with:   [1, 2]   {"a": 1, "b": 2}
CompoundNets ==
    { [url \in {<<"u">>} |-> [valid |-> TRUE, doc |-> doc]] :
        doc \in {JArray(<<JInt(1), JInt(2)>>),
                 JObject([key \in {"a", "b"} |-> IF key = "a" THEN JInt(1) ELSE JInt(2)])} }

\* <l> == <r>   and   <l> != <r>
CompoundInputs ==
    { [family |-> "compound", op |-> op, l |-> l, r |-> r,
       expr |-> BinaryNode(op, CompoundExprs("x")[l], CompoundExprs("y")[r]),
       variables |-> EmptyMap, net |-> net] :
        op \in {"EQ", "NEQ"}, l \in 1..Len(CompoundExprs("x")),
        r \in 1..Len(CompoundExprs("y")), net \in CompoundNets }

RoundTripExprs ==
    LET Scalars == {Num(0), Num(12), FloatLit(<<"1", ".", "0">>), FloatLit(<<"2", ".", "5">>),
                    StringLit(<<>>), StringLit(<<"a", "b">>), TrueExpr, FalseExpr}
        Flat == {ArrayLit(<<>>), ObjectLit(<<>>)}
                  \cup {ArrayLit(<<a, b>>) : a \in Scalars, b \in Scalars}
                  \cup {ObjectLit([key \in {"a", "k"} |-> IF key = "a" THEN a ELSE b]) :
                          a \in Scalars, b \in {Num(12), StringLit(<<"a", "b">>)}}
        Some == {ArrayLit(<<>>), ObjectLit(<<>>), ArrayLit(<<Num(12), FloatLit(<<"1", ".", "0">>)>>),
                 ObjectLit([key \in {"k"} |-> TrueExpr])}
    IN  Scalars \cup Flat
          \cup {ArrayLit(<<a, b>>) : a \in Some, b \in Some \cup {Num(0)}}
          \cup {ObjectLit([key \in {"x", "y"} |-> IF key = "x" THEN a ELSE b]) :
                  a \in Some, b \in Some}

RoundTripInputs ==
    { [family |-> "roundtrip", expr |-> e, hash |-> h] :
        e \in RoundTripExprs, h \in {"asc", "desc"} }

\* words of a source text: a name or keyword, an integer literal, an operator
\* or separator, a newline character
Alpha(s) == Word("alpha", s)

Number(i) == Word("digit", Digits(i))

Punct(s) == Word("punct", s)

Newline == Word("newline", "\n")

Quoted(s) == Word("quote", s)

\* expressions as written, boolean and not:
\*   1 == 1   1 == 2   t   1   "s"   2.5   [ 1 ]
SourceExprs ==
    << <<Number(1), Punct("=="), Number(1)>>,
       <<Number(1), Punct("=="), Number(2)>>,
       <<Alpha("t")>>,
       <<Number(1)>>,
       <<Quoted(<<"s">>)>>,
       <<Word("digit", <<"2", ".", "5">>)>>,
       <<Punct("["), Number(1), Punct("]")>> >>

\* { t = 1 == 1 ; <statements> }
Body(statements) ==
    <<Punct("{"), Alpha("t"), Punct("="), Number(1), Punct("=="), Number(1), Punct(";")>>
        \o statements \o <<Punct("}")>>

\* return <e> ;
ReturnOf(e) == <<Alpha("return")>> \o e \o <<Punct(";")>>

\* ( <name> = <e> )
Binding(name, e) == <<Punct("("), Alpha(name), Punct("=")>> \o e \o <<Punct(")")>>

\* return ! ( e ) ;
NotInputs == { [family |-> "not", e |-> e] : e \in 1..Len(SourceExprs) }

\* return ( x = l ) op ( x = r ) ;   and   return ( x = l ) op ( y = x ) ;
LogicalInputs ==
    { [family |-> "logical", op |-> op, l |-> l, right |-> "rebind", r |-> r] :
        op \in {"&&", "||"}, l \in 1..Len(SourceExprs), r \in 1..Len(SourceExprs) }
      \cup { [family |-> "logical", op |-> op, l |-> l, right |-> "copy", r |-> l] :
                op \in {"&&", "||"}, l \in 1..Len(SourceExprs) }

\* <name> = <e> ;
Statement(name, e) == <<Alpha(name), Punct("=")>> \o e \o <<Punct(";")>>

\* the statements S inside a nested block, an if-branch, an else-branch or
\* the body of a while, for or each loop that runs once
Nested(where, S) ==
    CASE where = "block" -> <<Punct("{")>> \o S \o <<Punct("}")>>
      [] where = "if" ->
            <<Alpha("if"), Punct("("), Alpha("t"), Punct(")"), Punct("{")>> \o S
                \o <<Punct("}")>>
      [] where = "else" ->
            <<Alpha("if"), Punct("("), Number(1), Punct("=="), Number(2), Punct(")"),
              Punct("{"), Punct("}"), Alpha("else"), Punct("{")>> \o S \o <<Punct("}")>>
      [] where = "while" ->
            <<Alpha("while"), Punct("("), Alpha("n"), Punct("=="), Number(0), Punct(")"),
              Punct("{")>> \o S \o Statement("n", <<Number(1)>>) \o <<Punct("}")>>
      [] where = "for" ->
            <<Alpha("for"), Punct("(")>> \o Statement("i", <<Number(0)>>)
                \o <<Alpha("i"), Punct("<"), Number(1), Punct(";"),
                     Alpha("i"), Punct("="), Alpha("i"), Punct("+"), Number(1), Punct(")"),
                     Punct("{")>> \o S \o <<Punct("}")>>
      [] where = "each" ->
            Statement("xs", <<Punct("["), Number(1), Punct(","), Number(2), Punct("]")>>)
                \o <<Alpha("each"), Alpha("a"), Punct(","), Alpha("b"), Alpha("in"),
                     Alpha("xs"), Alpha("meet"), Alpha("a"), Punct("<"), Alpha("b"),
                     Punct("{")>> \o S \o <<Punct("}")>>

\* left sides that are not an identifier node:   1   "s"   x + 1   x [ 0 ]
LeftSides ==
    << <<Number(1)>>, <<Quoted(<<"s">>)>>, <<Alpha("x"), Punct("+"), Number(1)>>,
       <<Alpha("x"), Punct("["), Number(0), Punct("]")>> >>

\* return ( x = e ) ;
\* x = 0 ; <x = e ; nested> return x ;
\* x = 1 ; <target> = ( x = 2 ) ;
AssignmentInputs ==
    { [family |-> "assignment", form |-> "yield", e |-> e] : e \in 1..Len(SourceExprs) }
      \cup { [family |-> "assignment", form |-> where, e |-> e] :
                where \in {"block", "if", "else", "while", "for", "each"},
                e \in 1..Len(SourceExprs) }
      \cup { [family |-> "assignment", form |-> "target", e |-> k] : k \in 1..Len(LeftSides) }

\* o = { "<first>": x = 1, "<second>": x = 2 }; return x;
\* run by a build with either iteration order of std::unordered_map
ObjectInputs ==
    { [family |-> "object", first |-> k1, second |-> k2, hash |-> h] :
        k1 \in {"a", "b", "k"}, k2 \in {"a", "b", "k"}, h \in {"asc", "desc"} }

\* values as written, objects and not:
\*   { }   { "k" : 1 }   { "a" : 1 }   { "k" : [ 1 ] , "a" : "s" }   [ 1 ]   1   "s"
DotObjects ==
    << <<Punct("{"), Punct("}")>>,
       <<Punct("{"), Quoted(<<"k">>), Punct(":"), Number(1), Punct("}")>>,
       <<Punct("{"), Quoted(<<"a">>), Punct(":"), Number(1), Punct("}")>>,
       <<Punct("{"), Quoted(<<"k">>), Punct(":"), Punct("["), Number(1), Punct("]"),
         Punct(","), Quoted(<<"a">>), Punct(":"), Quoted(<<"s">>), Punct("}")>>,
       <<Punct("["), Number(1), Punct("]")>>,
       <<Number(1)>>,
       <<Quoted(<<"s">>)>> >>

\* o = <object>; v = o.<key>; return o;
DotInputs ==
    { [family |-> "dot", o |-> o, key |-> key] :
        o \in 1..Len(DotObjects), key \in {"k", "a", "b"} }

\* statements around R, which is   return ;   or the empty statement   ;
\*   x = 1 ; R x = 2 ; return x ;          R return 5 ;          x = 1 ; R
\*   { R x = 2 ; } return x ;              { return 4 ; } R x = 9 ;
\*   if ( t ) R return 6 ;                 while ( n == 0 ) { R n = 1 ; } return n ;
Around(form, R) ==
    CASE form = 1 -> Statement("x", <<Number(1)>>) \o R \o Statement("x", <<Number(2)>>)
                        \o ReturnOf(<<Alpha("x")>>)
      [] form = 2 -> R \o ReturnOf(<<Number(5)>>)
      [] form = 3 -> Statement("x", <<Number(1)>>) \o R
      [] form = 4 -> <<Punct("{")>> \o R \o Statement("x", <<Number(2)>>) \o <<Punct("}")>>
                        \o ReturnOf(<<Alpha("x")>>)
      [] form = 5 -> <<Punct("{")>> \o ReturnOf(<<Number(4)>>) \o <<Punct("}")>> \o R
                        \o Statement("x", <<Number(9)>>)
      [] form = 6 -> <<Alpha("if"), Punct("("), Alpha("t"), Punct(")")>> \o R
                        \o ReturnOf(<<Number(6)>>)
      [] form = 7 -> <<Alpha("while"), Punct("("), Alpha("n"), Punct("=="), Number(0),
                       Punct(")"), Punct("{")>> \o R \o Statement("n", <<Number(1)>>)
                        \o <<Punct("}")>> \o ReturnOf(<<Alpha("n")>>)

ReturnInputs == { [family |-> "return", form |-> form] : form \in 1..7 }

SourceInputs ==
    NotInputs \cup LogicalInputs \cup AssignmentInputs \cup ObjectInputs \cup DotInputs
        \cup ReturnInputs

\* the body of the endpoint of a source input
BodyWords(in) ==
    CASE in.family = "not" -> Body(ReturnOf(<<Punct("!"), Punct("(")>> \o SourceExprs[in.e] \o <<Punct(")")>>))
      [] in.family = "logical" ->
            Body(ReturnOf(Binding("x", SourceExprs[in.l]) \o <<Punct(in.op)>>
                            \o (IF in.right = "rebind" THEN Binding("x", SourceExprs[in.r])
                                ELSE Binding("y", <<Alpha("x")>>))))
      [] in.family = "object" ->
            Body(Statement("o", <<Punct("{"), Quoted(<<in.first>>), Punct(":"),
                                  Alpha("x"), Punct("="), Number(1), Punct(","),
                                  Quoted(<<in.second>>), Punct(":"),
                                  Alpha("x"), Punct("="), Number(2), Punct("}")>>)
                    \o ReturnOf(<<Alpha("x")>>))
      [] in.family = "dot" ->
            Body(Statement("o", DotObjects[in.o])
                    \o Statement("v", <<Alpha("o"), Punct("."), Alpha(in.key)>>)
                    \o ReturnOf(<<Alpha("o")>>))
      [] in.family = "return" -> Body(Around(in.form, ReturnOf(<<>>)))
      [] in.family = "assignment" ->
            CASE in.form = "yield" -> Body(ReturnOf(Binding("x", SourceExprs[in.e])))
              [] in.form = "target" ->
                    Body(Statement("x", <<Number(1)>>) \o LeftSides[in.e] \o <<Punct("=")>>
                            \o Binding("x", <<Number(2)>>) \o <<Punct(";")>>)
              [] OTHER ->
                    Body(Statement("x", <<Number(0)>>)
                            \o Nested(in.form, Statement("x", SourceExprs[in.e]))
                            \o ReturnOf(<<Alpha("x")>>))

\* the body is parsed and, unless the parser exits on an error, run as an
\* endpoint in a new Executor
RunBodyIn(words, hash) ==
    LET Ran(message, st) == [val |-> st.result_, st |-> st, error |-> message]
        Run(R) ==
            IF Failed(R.P) THEN Ran(R.P.error, NewExecutor(<<>>, NoNet, hash))
            ELSE Ran("", execute_api(APINode("/", DefaultPort, R.node),
                                     NewExecutor(<<>>, NoNet, hash)))
    IN  Run(parse_block(Parser(words)))

RunBody(words) == RunBodyIn(words, "asc")

EvalInputs ==
    BinaryInputs \cup ApiInputs \cup FetchInputs \cup CompoundInputs \cup RoundTripInputs
        \cup SourceInputs

ProgramOf(in) ==
    CASE in.family = "index" -> IndexProgram(in)
      [] in.family = "each" -> EachProgram(in)
      [] in.family = "for" -> ForProgram(in)
      [] in.family = "nested" -> in.body
      [] in.family = "loop" -> LoopProgram(in)

InitEval ==
    /\ ServerOff
    /\ input \in EvalInputs
    /\ output = NoOutput
    /\ done = FALSE

\* evaluate_expression on the drawn expression, in a new Executor
EvaluateExpression ==
    /\ ~done
    /\ input.family = "binary"
    /\ output' = evaluate_expression(input.expr, NewExecutor(<<>>, NoNet, "asc"))
    /\ done' = TRUE
    /\ UNCHANGED <<input, serverVars>>

\* execute_api on an endpoint with the drawn body, in a new Executor
ExecuteApi ==
    /\ ~done
    /\ input.family \in {"index", "each", "for", "nested", "loop"}
    /\ LET Result(st) == Returns(st.result_, st)
       IN  output' = Result(execute_api(APINode("/", DefaultPort, ProgramOf(input)),
                                        NewExecutor(<<>>, NoNet, "asc")))
    /\ done' = TRUE
    /\ UNCHANGED <<input, serverVars>>

\* evaluate_expression on the drawn expression, in an Executor that holds the
\* drawn bindings and whose requests meet the drawn remote end
EvaluateIn ==
    /\ ~done
    /\ input.family \in {"fetch", "compound"}
    /\ output' = evaluate_expression(input.expr,
                     [NewExecutor(<<>>, input.net, "asc") EXCEPT
                         !.variables = input.variables])
    /\ done' = TRUE
    /\ UNCHANGED <<input, serverVars>>

\* a Value is built by evaluating the drawn literal, encoded by to_json and
\* the document decoded by json_to_value
RoundTrip ==
    /\ ~done
    /\ input.family = "roundtrip"
    /\ LET Decoded(V, J) == [val |-> V.val, st |-> V.st, json |-> J, back |-> json_to_value(J, V.st)]
           Encoded(V) == Decoded(V, to_json(V.val, V.st.heap))
       IN  output' = Encoded(evaluate_expression(input.expr,
                                NewExecutor(<<>>, NoNet, input.hash)))
    /\ done' = TRUE
    /\ UNCHANGED <<input, serverVars>>

\* the drawn source text is parsed and run
RunSource ==
    /\ ~done
    /\ input.family \in {"not", "logical", "assignment", "object", "dot", "return"}
    /\ output' = RunBodyIn(BodyWords(input),
                           IF input.family = "object" THEN input.hash ELSE "asc")
    /\ done' = TRUE
    /\ UNCHANGED <<input, serverVars>>

NextEval == EvaluateExpression \/ ExecuteApi \/ EvaluateIn \/ RoundTrip \/ RunSource

SpecEval == InitEval /\ [][NextEval]_vars

\* source programs of up to MaxItems top-level items
TopItems == {Listen(8015), Listen(9000), Api("/a", Block(<<>>)), Api("/b", Block(<<>>))}

ParseInputs ==
    { [family |-> "program", items |-> items] :
        items \in UNION {[1..n -> TopItems] : n \in 0..MaxItems} }

\* the binary operators of the language, as written
BinaryOperators ==
    {"=", "||", "&&", "==", "!=", "<", "<=", ">", ">=", "+", "-", "*", "/", "<-"}

\* operands of an expression: the words and the node they are parsed to
\*   a   b   1   !c   (a + b)   2   3
Operands ==
    << [words |-> <<Alpha("a")>>, node |-> Ident("a")],
       [words |-> <<Alpha("b")>>, node |-> Ident("b")],
       [words |-> <<Number(1)>>, node |-> Num(1)],
       [words |-> <<Punct("!"), Alpha("c")>>,
        node |-> [ExprNode("NOT", "") EXCEPT !.right = Ident("c")]],
       [words |-> <<Punct("("), Alpha("a"), Punct("+"), Alpha("b"), Punct(")")>>,
        node |-> BinaryNode("ADD", Ident("a"), Ident("b"))],
       [words |-> <<Number(2)>>, node |-> Num(2)],
       [words |-> <<Number(3)>>, node |-> Num(3)] >>

\* operand, operator, operand, ...: every choice of one to MaxOps operators
\* between the operands a b 1 b a ..., every choice of two operators between
\* operands of the forms a, !c and (a + b), and a = b = 1 + 2 * 3
ExpressionInputs ==
    { [family |-> "expression", ops |-> ops,
       operands |-> [k \in 1..(Len(ops) + 1) |-> <<1, 2, 3, 2, 1>>[((k - 1) % 5) + 1]]] :
        ops \in UNION {[1..n -> BinaryOperators] : n \in 1..MaxOps} }
      \cup { [family |-> "expression", operands |-> opnds, ops |-> ops] :
                opnds \in [1..3 -> {1, 4, 5}], ops \in [1..2 -> BinaryOperators] }
      \cup { [family |-> "expression", operands |-> <<1, 2, 3, 6, 7>>,
              ops |-> <<"=", "=", "+", "*">>] }

RECURSIVE ExpressionWords(_, _)
ExpressionWords(operands, ops) ==
    IF ops = <<>> THEN Operands[Head(operands)].words
    ELSE Operands[Head(operands)].words \o <<Punct(Head(ops))>>
            \o ExpressionWords(Tail(operands), Tail(ops))

\* suffixes of a postfix expression: the words, the node type of the access and
\* the node of the index   [0]   .a   .b   .1
Suffixes ==
    << [words |-> <<Punct("["), Number(0), Punct("]")>>,
        op_type |-> "ARRAY_ACCESS", index |-> Num(0)],
       [words |-> <<Punct("."), Alpha("a")>>, op_type |-> "DOT", index |-> Ident("a")],
       [words |-> <<Punct("."), Alpha("b")>>, op_type |-> "DOT", index |-> Ident("b")],
       [words |-> <<Punct("."), Number(1)>>, op_type |-> "DOT", index |-> Num(1)] >>

\* x followed by one or two suffixes (the integer suffix last, where the
\* lexer does not join it with a following dot) and then nothing or + 1
PostfixInputs ==
    { [family |-> "postfix", suffixes |-> Append(front, last), ops |-> ops] :
        front \in UNION {[1..n -> 1..3] : n \in 0..1}, last \in 1..4,
        ops \in {<<>>, <<"+">>} }

RECURSIVE SuffixWords(_)
SuffixWords(suffixes) ==
    IF suffixes = <<>> THEN <<>>
    ELSE Suffixes[Head(suffixes)].words \o SuffixWords(Tail(suffixes))

\* the words of an input of the expression parser
SourceWords(in) ==
    IF in.family = "expression" THEN ExpressionWords(in.operands, in.ops)
    ELSE <<Alpha("x")>> \o SuffixWords(in.suffixes)
            \o (IF in.ops = <<>> THEN <<>> ELSE <<Punct("+"), Number(1)>>)

\* { int name = e ; }   { float name ; }   ...
DeclarationInputs ==
    { [family |-> "declaration", type |-> type, name |-> name, init |-> init] :
        type \in {"int", "float"}, name \in {"x", "n"}, init \in 0..Len(SourceExprs) }

\* the conditions of an each statement:  a + b == 5   a < b
MeetWords ==
    << <<Alpha("a"), Punct("+"), Alpha("b"), Punct("=="), Number(5)>>,
       <<Alpha("a"), Punct("<"), Alpha("b")>> >>

\* each ( a , b in xs ) meet <cond> { total = total + 1 ; }, with and without
\* the parentheses, alone in the body of an endpoint or as in
\*   xs = [ 1 , 2 , 3 , 4 ] ; total = 0 ; each ... return total ;
EachSourceInputs ==
    { [family |-> "each_source", parens |-> parens, arr |-> arr, meet |-> meet,
       whole |-> whole] :
        parens \in BOOLEAN, arr \in {"xs", "ys"}, meet \in 1..Len(MeetWords),
        whole \in BOOLEAN }

\* the statements of each kind that end in a terminator
\*   x = 1   return x   print x   int x = 1
Terminated ==
    << <<Alpha("x"), Punct("="), Number(1)>>, <<Alpha("return"), Alpha("x")>>,
       <<Alpha("print"), Alpha("x")>>,
       <<Alpha("int"), Alpha("x"), Punct("="), Number(1)>> >>

\* { <statement> <; or newline> }  and  { <statement> <; or newline> y = 2 ; }
TerminatorInputs ==
    { [family |-> "terminator", statement |-> k, end |-> end, more |-> more] :
        k \in 1..Len(Terminated), end \in {";", "\n"}, more \in BOOLEAN }

EachWords(in) ==
    <<Alpha("each")>> \o (IF in.parens THEN <<Punct("(")>> ELSE <<>>)
        \o <<Alpha("a"), Punct(","), Alpha("b"), Alpha("in"), Alpha(in.arr)>>
        \o (IF in.parens THEN <<Punct(")")>> ELSE <<>>)
        \o <<Alpha("meet")>> \o MeetWords[in.meet]
        \o <<Punct("{")>>
        \o Statement("total", <<Alpha("total"), Punct("+"), Number(1)>>)
        \o <<Punct("}")>>

\* the words of an input of the block parser
BlockWords(in) ==
    CASE in.family = "declaration" ->
            <<Punct("{"), Alpha(in.type), Alpha(in.name)>>
                \o (IF in.init = 0 THEN <<>> ELSE <<Punct("=")>> \o SourceExprs[in.init])
                \o <<Punct(";"), Punct("}")>>
      [] in.family = "each_source" ->
            <<Punct("{")>>
                \o (IF in.whole
                    THEN Statement(in.arr, <<Punct("["), Number(1), Punct(","), Number(2),
                                             Punct(","), Number(3), Punct(","), Number(4),
                                             Punct("]")>>)
                            \o Statement("total", <<Number(0)>>)
                    ELSE <<>>)
                \o EachWords(in)
                \o (IF in.whole THEN ReturnOf(<<Alpha("total")>>) ELSE <<>>)
                \o <<Punct("}")>>
      [] in.family = "terminator" ->
            <<Punct("{")>> \o Terminated[in.statement]
                \o <<IF in.end = ";" THEN Punct(";") ELSE Newline>>
                \o (IF in.more THEN Statement("y", <<Number(2)>>) ELSE <<>>)
                \o <<Punct("}")>>

\* what the parser made of the words: the node, the message of error() if it
\* was called, and the token the Parser is left on
ParseResult(R) ==
    [node |-> R.node, error |-> R.P.error, current_token |-> R.P.current_token]

InitParse ==
    /\ ServerOff
    /\ input \in ParseInputs \cup ExpressionInputs \cup PostfixInputs
                \cup DeclarationInputs \cup EachSourceInputs \cup TerminatorInputs
    /\ output = NoOutput
    /\ done = FALSE

\* Parser::parse_program on the drawn source
ParseProgram ==
    /\ ~done
    /\ input.family = "program"
    /\ output' = [program |-> parse_program(input.items)]
    /\ done' = TRUE
    /\ UNCHANGED <<input, serverVars>>

\* Parser::parse_expression on the drawn words, by a new Parser
ParseExpression ==
    /\ ~done
    /\ input.family \in {"expression", "postfix"}
    /\ output' = ParseResult(parse_expression(Parser(SourceWords(input))))
    /\ done' = TRUE
    /\ UNCHANGED <<input, serverVars>>

\* Parser::parse_block on the drawn words, by a new Parser
ParseBlock ==
    /\ ~done
    /\ input.family \in {"declaration", "each_source", "terminator"}
    /\ output' = ParseResult(parse_block(Parser(BlockWords(input))))
    /\ done' = TRUE
    /\ UNCHANGED <<input, serverVars>>

NextParse == ParseProgram \/ ParseExpression \/ ParseBlock

SpecParse == InitParse /\ [][NextParse]_vars


(***************************************************************************)
(* Properties.                                                             *)
(***************************************************************************)
Responded(s) == sessions[s].state \in {"writing", "done", "dropped"}

\* the response body an endpoint produces when it is evaluated on its own
Solo(api) ==
    LET st == execute_api(api, NewExecutor(<<>>, NoNet, "asc"))
    IN  value_to_string(st.result_, st.heap)

\* the port in force at item k of a source text: the integer of the last
\* listen before it, 80 when there is none
ListensBefore(items, k) == {m \in 1..(k - 1) : items[m].kind = "listen"}

PortInForce(items, k) ==
    LET L == ListensBefore(items, k)
    IN  IF L = {} THEN 80
        ELSE items[CHOOSE m \in L : \A o \in L : o <= m].number

\* the api items of a source text that declare path for port p
DeclaredOn(items, p, path) ==
    {k \in 1..Len(items) :
        items[k].kind = "api" /\ items[k].path = path /\ PortInForce(items, k) = p}

\* C1: when the evaluation of an endpoint body fails for one request, the
\* failure is confined to that request: the server process keeps running and
\* the request is answered with a 5xx response.
C1_FailureConfined ==
    \A s \in 1..Len(sessions) :
        sessions[s].state = "failed" => alive /\ sessions[s].res.status >= 500

\* C2: every request is evaluated with its own fresh environment, result slot
\* and returning flag, and under any interleaving of the worker jobs each
\* response is the one the request's endpoint produces when evaluated on its own.
C2_RequestIsolation ==
    \A s \in 1..Len(sessions) :
        /\ (sessions[s].state = "running" /\ sessions[s].pc = 1) =>
              /\ executors[ExecutorOf(s)].variables = EmptyMap
              /\ executors[ExecutorOf(s)].result_ = DefaultValue
              /\ executors[ExecutorOf(s)].return_ = FALSE
        /\ (Responded(s) /\ sessions[s].res.status = 200) =>
              sessions[s].res.body = Solo(apisByPort[sessions[s].port][sessions[s].target])

\* two requests to the same endpoint in flight together: one has stored a
\* variable and not yet returned, the other has been answered
C2_Witness ==
    \E s \in 1..Len(sessions), r \in 1..Len(sessions) :
        /\ s # r
        /\ sessions[s].target = "/cnt" /\ sessions[r].target = "/cnt"
        /\ sessions[s].port = sessions[r].port
        /\ sessions[s].state = "running" /\ sessions[s].pc = 2
        /\ sessions[r].state = "done" /\ sessions[r].res.status = 200

\* the number of BLOCKs open at position k of a history
RECURSIVE BlockDepth(_, _)
BlockDepth(log, k) ==
    IF k = 0 THEN 0
    ELSE BlockDepth(log, k - 1)
         + (IF log[k].e = "enter" THEN 1 ELSE IF log[k].e = "leave" THEN -1 ELSE 0)

\* C3: a return with an expression that executes inside a block nested in the
\* endpoint body ends the evaluation: no later statement executes and the
\* endpoint's result is the value of that return.
C3_NestedReturnUnwinds ==
    (done /\ input.family = "nested" /\ ~Aborted(output.st)) =>
        LET log == output.st.log
        IN  \A k \in 1..Len(log) :
                (log[k].e = "return" /\ BlockDepth(log, k) >= 2) =>
                    /\ \A m \in (k + 1)..Len(log) : log[m].e # "stmt"
                    /\ output.val = log[k].val

\* C4: a request on port P is routed by exact equality of its target with the
\* paths declared for P only: on a match the response is 200 with the JSON
\* serialisation of the value the endpoint's body returns, otherwise (also
\* when another port declares the path) 404 with a body that mentions P.
C4_RoutingByPortAndPath ==
    \A s \in 1..Len(sessions) :
        Responded(s) =>
            LET p == sessions[s].port
                D == DeclaredOn(source, p, sessions[s].target)
                res == sessions[s].res
            IN  IF D = {}
                THEN res.status = 404 /\ res.body.kind = "text" /\ res.body.port = p
                ELSE /\ res.status = 200
                     /\ \E k \in D :
                          res.body = Solo(APINode(source[k].path, p, source[k].body))

\* a 404 for a path that another port declares, and a 200
C4_Witness ==
    /\ \E s \in 1..Len(sessions) :
          /\ sessions[s].state = "done" /\ sessions[s].res.status = 404
          /\ \E q \in DOMAIN apisByPort :
                q # sessions[s].port /\ sessions[s].target \in DOMAIN apisByPort[q]
    /\ \E s \in 1..Len(sessions) :
          sessions[s].state = "done" /\ sessions[s].res.status = 200

\* the positions of the api items of a source text, in order
ApiPositions(items) == SelectSeq([k \in 1..Len(items) |-> k], LAMBDA k : items[k].kind = "api")

\* C5: each endpoint's port is the integer of the most recent listen directive
\* that precedes it in source order, 80 when none precedes it; a listen
\* directive never changes the port of an endpoint declared before it.
C5_PortOfPrecedingListen ==
    (done /\ input.family = "program") =>
        LET pos == ApiPositions(input.items)
            apis == output.program.apis
        IN  /\ Len(apis) = Len(pos)
            /\ \A k \in 1..Len(pos) :
                  /\ apis[k].path = input.items[pos[k]].path
                  /\ apis[k].port = PortInForce(input.items, pos[k])

\* a parsed program with an endpoint before its first listen and one after it
C5_Witness ==
    /\ done /\ input.family = "program"
    /\ Len(output.program.apis) = 2
    /\ output.program.apis[1].port = 80
    /\ output.program.apis[2].port = 8015

ForEvents(log) == SelectSeq(log, LAMBDA ev : ev.e \in {"for.exec", "for.cond"})

MeetEvents(log) == SelectSeq(log, LAMBDA ev : ev.e = "each.meet")

\* the value a literal element of an array evaluates to
ElemValue(e) == evaluate_expression(e, NewExecutor(<<>>, NoNet, "asc")).val

IsTrue(val) == val.t = "bool" /\ val.b

\* C6: an each over an array of length n evaluates the meet condition exactly
\* once for every pair (i, j), 0 <= i < j < n, in increasing order of i then j,
\* with p0 bound to arr[i] and p1 to arr[j]; the body runs exactly for the
\* pairs whose condition is boolean true; a false or non-boolean condition
\* skips the pair without an error.
C6_EachPairs ==
    (done /\ input.family = "each") =>
        LET log == output.st.log
            M == MeetEvents(log)
            n == Len(input.elems)
        IN  /\ \A k \in 1..Len(M) :
                  /\ 0 <= M[k].i /\ M[k].i < M[k].j /\ M[k].j < n
                  /\ M[k].p0 = ElemValue(input.elems[M[k].i + 1])
                  /\ M[k].p1 = ElemValue(input.elems[M[k].j + 1])
            /\ \A k \in 1..(Len(M) - 1) :
                  \/ M[k].i < M[k + 1].i
                  \/ M[k].i = M[k + 1].i /\ M[k].j < M[k + 1].j
            /\ ~Aborted(output.st) => 2 * Len(M) = n * (n - 1)
            /\ \A k \in 1..Len(log) :
                  /\ log[k].e = "each.meet" =>
                        (IsTrue(log[k].cond) <=>
                            /\ k < Len(log)
                            /\ log[k + 1].e = "each.body"
                            /\ log[k + 1].i = log[k].i /\ log[k + 1].j = log[k].j)
                  /\ log[k].e = "each.body" => k > 1 /\ log[k - 1].e = "each.meet"
            /\ input.cond.op_type \in {"IDENTIFIER", "NEQ"} => ~Aborted(output.st)

\* three elements, a pair that meets and a pair with a non-boolean condition
C6_Witness ==
    /\ done /\ input.family = "each" /\ Len(input.elems) = 3
    /\ ~Aborted(output.st)
    /\ \E k \in 1..Len(output.st.log) :
          output.st.log[k].e = "each.meet" /\ IsTrue(output.st.log[k].cond)
    /\ \E k \in 1..Len(output.st.log) :
          output.st.log[k].e = "each.meet" /\ output.st.log[k].cond.t = "int"

IsExec(ev, node) == ev.e = "for.exec" /\ ev.node = node

IsCond(ev) == ev.e = "for.cond"

\* C7: for a for statement, whichever header parts are present: the init
\* statement runs exactly once before the first condition check and nothing
\* else runs before it; every iteration is the condition check, then the
\* body, then the step (if present).
C7_ForOrder ==
    (done /\ input.family = "for") =>
        LET F == ForEvents(output.st.log)
            stepStmt == ExpressionStmt(input.step)
            hasInit == ~IsNull(input.init)
            hasStep == ~IsNull(input.step)
        IN  /\ Len(F) >= 1
            /\ IF hasInit THEN IsExec(F[1], input.init) ELSE IsCond(F[1])
            /\ \A k \in 2..Len(F) : ~(hasInit /\ IsExec(F[k], input.init))
            /\ \A k \in 1..(Len(F) - 1) :
                  IF IsCond(F[k]) THEN IsExec(F[k + 1], input.body)
                  ELSE IF k = 1 /\ hasInit THEN IsCond(F[k + 1])
                  ELSE IF IsExec(F[k], input.body)
                  THEN (IF hasStep THEN IsExec(F[k + 1], stepStmt) ELSE IsCond(F[k + 1]))
                  ELSE IsExec(F[k], stepStmt) /\ hasStep /\ IsCond(F[k + 1])

TypeOf(val) ==
    IF val.t = "complex" THEN (IF val.first = ArrayTag THEN "array" ELSE "object") ELSE val.t

IsNumber(val) == val.t \in {"int", "float"}

IsZero(val) == (val.t = "int" /\ val.i = 0) \/ (val.t = "float" /\ val.n = 0)

\* C8: for +, -, *, /: (int, int) gives an int; a float with an int or a float
\* gives a float; + on (string, string) concatenates; every other pair of
\* operand types fails; / fails whenever the right operand is int 0 or float 0.0.
C8_ArithmeticTypes ==
    (done /\ input.family = "binary" /\ input.expr.op_type \in {"ADD", "SUB", "MUL", "DIV"}) =>
        LET op == input.expr.op_type
            l == ElemValue(input.expr.left)
            r == ElemValue(input.expr.right)
            ok == output.st.error = ""
        IN  /\ (op = "DIV" /\ IsZero(r)) => ~ok
            /\ IF op = "DIV" /\ IsZero(r) THEN ~ok
               ELSE IF l.t = "int" /\ r.t = "int" THEN ok /\ output.val.t = "int"
               ELSE IF IsNumber(l) /\ IsNumber(r) THEN ok /\ output.val.t = "float"
               ELSE IF op = "ADD" /\ l.t = "string" /\ r.t = "string"
               THEN ok /\ output.val = StringV(l.s \o r.s)
               ELSE ~ok

\* an int plus a float gave a float, as 1 + 2.5
C8_Witness ==
    /\ done /\ input.family = "binary" /\ input.expr.op_type = "ADD"
    /\ ElemValue(input.expr.left) = IntV(1)
    /\ ElemValue(input.expr.right) = FloatV(5, 2)
    /\ output.st.error = "" /\ output.val = FloatV(7, 2)

\* C9: == and != never fail and report unequal whenever the operands have
\* different types (int 1 against float 1.0 included); <, <=, >, >= yield a
\* boolean exactly on (int, int), mixed int/float, (float, float) and
\* (string, string), and fail on every other pair of operand types.
C9_ComparisonTypes ==
    (done /\ input.family = "binary") =>
        LET op == input.expr.op_type
            l == ElemValue(input.expr.left)
            r == ElemValue(input.expr.right)
            ok == output.st.error = ""
        IN  /\ op \in {"EQ", "NEQ"} =>
                  /\ ok /\ output.val.t = "bool"
                  /\ TypeOf(l) # TypeOf(r) => output.val.b = (op = "NEQ")
            /\ op \in {"LT", "LE", "GT", "GE"} =>
                  IF (IsNumber(l) /\ IsNumber(r)) \/ (l.t = "string" /\ r.t = "string")
                  THEN ok /\ output.val.t = "bool"
                  ELSE ~ok

\* 1 == 1.0 evaluated to false
C9_Witness ==
    /\ done /\ input.family = "binary" /\ input.expr.op_type = "EQ"
    /\ ElemValue(input.expr.left) = IntV(1)
    /\ ElemValue(input.expr.right) = FloatV(1, 1)
    /\ output.st.error = "" /\ output.val = BoolV(FALSE)

\* C10: a[i] returns the i-th element and never fails when 0 <= i < len(a),
\* and always fails when i < 0 or i >= len(a); a.i with an integer i < 0
\* yields the null value instead of failing.
C10_ArrayIndexing ==
    (done /\ input.family = "index") =>
        LET i == input.index
            ok == output.st.error = ""
        IN  /\ (input.form = "bracket" /\ 0 <= i /\ i < input.len) =>
                  ok /\ output.val = IntV(10 * (i + 1))
            /\ (input.form = "bracket" /\ (i < 0 \/ i >= input.len)) => ~ok
            /\ (input.form = "dot" /\ i < 0) => ok /\ output.val = IntV(NULL_VALUE)

\* an index equal to the length of a non-empty array failed
C10_Witness ==
    /\ done /\ input.family = "index" /\ input.form = "bracket"
    /\ input.len = 2 /\ input.index = 2
    /\ output.st.error # ""


\* C11: for a fetch x <- e: when e is not a string the evaluation fails; when
\* the fetched body decodes as JSON, x is bound to the decoded value and that
\* value is the result; when the request fails or the body is not JSON, the
\* result is integer 0 and the environment is unchanged.
C11_Fetch ==
    (done /\ input.family = "fetch") =>
        LET e == evaluate_expression(input.expr.right,
                     [NewExecutor(<<>>, input.net, "asc") EXCEPT
                         !.variables = input.variables]).val
            reply == IF <<"u">> \in DOMAIN input.net THEN input.net[<<"u">>]
                     ELSE [valid |-> FALSE, doc |-> JNull]
            ok == output.st.error = ""
        IN  IF e.t # "string" THEN ~ok
            ELSE IF reply.valid
            THEN /\ ok
                 /\ to_json(output.val, output.st.heap)
                        = (IF reply.doc = JNull THEN JInt(0) ELSE reply.doc)
                 /\ DOMAIN output.st.variables = DOMAIN input.variables \cup {"x"}
                 /\ output.st.variables["x"] = output.val
            ELSE ok /\ output.val = IntV(0) /\ output.st.variables = input.variables

\* x was bound to 5 and the body fetched was not JSON: the result is 0, x is 5
C11_Witness ==
    /\ done /\ input.family = "fetch"
    /\ input.expr.right = StringLit(<<"u">>)
    /\ <<"u">> \in DOMAIN input.net /\ ~input.net[<<"u">>].valid
    /\ input.variables = [name \in {"x"} |-> IntV(5)]
    /\ output.val = IntV(0)
    /\ output.st.variables["x"] = IntV(5)

\* two Values with the same type tags and the same contents, element by
\* element and key by key
RECURSIVE SameValue(_, _, _, _)
SameValue(v, vheap, w, wheap) ==
    IF v.t # w.t THEN FALSE
    ELSE IF v.t # "complex" THEN v = w
    ELSE /\ v.first = w.first
         /\ v.second \in DOMAIN vheap /\ w.second \in DOMAIN wheap
         /\ IF v.first = ArrayTag
            THEN LET a == vheap[v.second].elems
                     b == wheap[w.second].elems
                 IN  /\ Len(a) = Len(b)
                     /\ \A k \in 1..Len(a) : SameValue(a[k], vheap, b[k], wheap)
            ELSE LET a == vheap[v.second].map
                     b == wheap[w.second].map
                 IN  /\ DOMAIN a = DOMAIN b
                     /\ \A key \in DOMAIN a : SameValue(a[key], vheap, b[key], wheap)

\* C12: encoding a Value built from integers, floats, strings, booleans,
\* arrays and objects with to_json and decoding the document with
\* json_to_value yields a Value with the same type tags and the same contents.
C12_JsonRoundTrip ==
    (done /\ input.family = "roundtrip") =>
        /\ output.st.error = ""
        /\ SameValue(output.val, output.st.heap, output.back.val, output.back.st.heap)

\* an array that holds an object and an array with an int and the float 1.0
C12_Witness ==
    /\ done /\ input.family = "roundtrip"
    /\ input.expr = ArrayLit(<<ObjectLit([key \in {"k"} |-> TrueExpr]),
                               ArrayLit(<<Num(12), FloatLit(<<"1", ".", "0">>)>>)>>)
    /\ output.back.val.t = "complex"
    /\ output.back.val.second # output.val.second

\* the rung of an operator on the precedence ladder, 1 the lowest
Rung(op) ==
    CASE op = "=" -> 1 [] op = "||" -> 2 [] op = "&&" -> 3
      [] op \in {"==", "!="} -> 4 [] op \in {"<", "<=", ">", ">="} -> 5
      [] op \in {"+", "-"} -> 6 [] op \in {"*", "/"} -> 7 [] op = "<-" -> 8

NodeType(op) ==
    CASE op = "=" -> "ASSIGN" [] op = "||" -> "OR" [] op = "&&" -> "AND"
      [] op = "==" -> "EQ" [] op = "!=" -> "NEQ" [] op = "<" -> "LT" [] op = "<=" -> "LE"
      [] op = ">" -> "GT" [] op = ">=" -> "GE" [] op = "+" -> "ADD" [] op = "-" -> "SUB"
      [] op = "*" -> "MUL" [] op = "/" -> "DIV" [] op = "<-" -> "CURL"

\* the tree the ladder prescribes for operand op operand ...: the root is the
\* operator of the lowest rung, the first of them when it is the
\* right-associative assignment and the last of them otherwise
RECURSIVE Ladder(_, _)
Ladder(nodes, ops) ==
    IF ops = <<>> THEN nodes[1]
    ELSE LET low == CHOOSE r \in 1..8 :
                        /\ \E k \in 1..Len(ops) : Rung(ops[k]) = r
                        /\ \A k \in 1..Len(ops) : Rung(ops[k]) >= r
             at == {k \in 1..Len(ops) : Rung(ops[k]) = low}
             root == IF low = 1 THEN CHOOSE k \in at : \A m \in at : k <= m
                     ELSE CHOOSE k \in at : \A m \in at : k >= m
         IN  BinaryNode(NodeType(ops[root]),
                        Ladder(SubSeq(nodes, 1, root), SubSeq(ops, 1, root - 1)),
                        Ladder(SubSeq(nodes, root + 1, Len(nodes)),
                               SubSeq(ops, root + 1, Len(ops))))

\* C13: the expression parser implements the precedence ladder assignment
\* (right-associative), ||, &&, equality, relational, additive, multiplicative,
\* fetch, unary ! / primary, every binary level but assignment left-associative.
C13_PrecedenceLadder ==
    (done /\ input.family = "expression") =>
        /\ output.error = ""
        /\ output.current_token.type = "END_OF_FILE"
        /\ output.node = Ladder([k \in 1..Len(input.operands) |->
                                    Operands[input.operands[k]].node], input.ops)

\* a = b = 1 + 2 * 3 was parsed as ASSIGN(a, ASSIGN(b, ADD(1, MUL(2, 3)))) and
\* a - b - 1 as SUB(SUB(a, b), 1)
C13_Witness ==
    /\ done /\ input.family = "expression"
    /\ \/ /\ input.ops = <<"=", "=", "+", "*">>
          /\ output.node =
                BinaryNode("ASSIGN", Ident("a"),
                    BinaryNode("ASSIGN", Ident("b"),
                        BinaryNode("ADD", Num(1), BinaryNode("MUL", Num(2), Num(3)))))
       \/ /\ input.ops = <<"-", "-">> /\ input.operands = <<1, 2, 3>>
          /\ output.node =
                BinaryNode("SUB", BinaryNode("SUB", Ident("a"), Ident("b")), Num(1))

\* the left-nested access (((node s1) s2) ... sn)
RECURSIVE LeftNested(_, _)
LeftNested(node, suffixes) ==
    IF suffixes = <<>> THEN node
    ELSE LeftNested(BinaryNode(Suffixes[Head(suffixes)].op_type, node,
                               Suffixes[Head(suffixes)].index),
                    Tail(suffixes))

\* C14: an identifier followed by suffixes s1 ... sn parses as the left-nested
\* access (((id s1) s2) ... sn), and an operator that follows the suffixes
\* applies to the whole access.
C14_PostfixLeftNested ==
    (done /\ input.family = "postfix") =>
        /\ output.error = ""
        /\ output.node =
              IF input.ops = <<>> THEN LeftNested(Ident("x"), input.suffixes)
              ELSE BinaryNode("ADD", LeftNested(Ident("x"), input.suffixes), Num(1))

\* the suffixes that do nest to the left: subscripts only, or subscripts and
\* then one dot suffix at the very end of the expression
C14_SubscriptsNest ==
    (/\ done /\ input.family = "postfix"
     /\ \A k \in 1..(Len(input.suffixes) - 1) : input.suffixes[k] = 1
     /\ input.ops = <<>> \/ input.suffixes[Len(input.suffixes)] = 1) =>
        /\ output.error = ""
        /\ output.node =
              IF input.ops = <<>> THEN LeftNested(Ident("x"), input.suffixes)
              ELSE BinaryNode("ADD", LeftNested(Ident("x"), input.suffixes), Num(1))

\* x.a.b was parsed as DOT(x, DOT(a, b)) and x.a + 1 as DOT(x, ADD(a, 1))
C14_RightNested ==
    /\ done /\ input.family = "postfix"
    /\ \/ /\ input.suffixes = <<2, 3>> /\ input.ops = <<>>
          /\ output.node = BinaryNode("DOT", Ident("x"),
                                BinaryNode("DOT", Ident("a"), Ident("b")))
       \/ /\ input.suffixes = <<2>> /\ input.ops = <<"+">>
          /\ output.node = BinaryNode("DOT", Ident("x"),
                                BinaryNode("ADD", Ident("a"), Num(1)))

\* what the expression e of a source input evaluates to after t = 1 == 1
ResultOf(e) == RunBody(Body(ReturnOf(SourceExprs[e])))

ValueOf(e) == ResultOf(e).val

\* C15: for a source expression !e, when e evaluates to a boolean b the result
\* is the boolean not-b, and when e evaluates to a non-boolean the evaluation
\* fails with a type error.
C15_Not ==
    (done /\ input.family = "not") =>
        /\ output.error = ""
        /\ IF ValueOf(input.e).t = "bool"
           THEN ~Aborted(output.st) /\ output.val = BoolV(~ValueOf(input.e).b)
           ELSE output.st.error # ""

\* return !(1 == 1); was parsed and failed on the null operand of the NOT node
C15_NullOperand ==
    /\ done /\ input.family = "not" /\ input.e = 1
    /\ output.error = ""
    /\ output.st.error = "Null expression"

\* the variable holds the value that the expression e evaluates to
Holds(st, name, e) ==
    /\ name \in DOMAIN st.variables
    /\ SameValue(st.variables[name], st.heap, ResultOf(e).val, ResultOf(e).st.heap)

\* C16: && and || evaluate both operands, left before right, so that the
\* assignment in the right operand happens whatever the left operand is; on
\* two booleans the result is the conjunction / disjunction, and a non-boolean
\* operand makes the operation fail.
C16_StrictLogical ==
    (done /\ input.family = "logical") =>
        /\ output.error = ""
        /\ input.right = "rebind" => Holds(output.st, "x", input.r)
        /\ input.right = "copy" =>
                Holds(output.st, "x", input.l) /\ Holds(output.st, "y", input.l)
        /\ IF ValueOf(input.l).t = "bool" /\ ValueOf(input.r).t = "bool"
           THEN /\ ~Aborted(output.st)
                /\ output.val =
                      BoolV(IF input.op = "&&"
                            THEN ValueOf(input.l).b /\ ValueOf(input.r).b
                            ELSE ValueOf(input.l).b \/ ValueOf(input.r).b)
           ELSE output.st.error # ""

\* return (x = 1 == 2) && (x = 1 == 1); yielded false and left x true,
\* return (x = 1 == 1) || (y = x); yielded true and left y true, and
\* return (x = 1 == 2) && (x = 1); failed
C16_Witness ==
    /\ done /\ input.family = "logical"
    /\ \/ /\ input.op = "&&" /\ input.l = 2 /\ input.right = "rebind" /\ input.r = 1
          /\ output.val = BoolV(FALSE) /\ output.st.variables["x"] = BoolV(TRUE)
       \/ /\ input.op = "||" /\ input.l = 1 /\ input.right = "copy"
          /\ output.val = BoolV(TRUE) /\ output.st.variables["y"] = BoolV(TRUE)
       \/ /\ input.op = "&&" /\ input.l = 2 /\ input.right = "rebind" /\ input.r = 4
          /\ output.st.error # ""

\* C17: an assignment x = e binds x to the value of e and yields that value;
\* a binding made inside a nested block, an if- or else-branch or a loop body
\* is seen by the statements after it; an assignment whose left side is not
\* an identifier fails and leaves the environment as it was.
C17_Assignment ==
    (done /\ input.family = "assignment") =>
        /\ output.error = ""
        /\ IF input.form = "target"
           THEN /\ output.st.error # ""
                /\ output.st.variables = [name \in {"t", "x"} |->
                                            IF name = "t" THEN BoolV(TRUE) ELSE IntV(1)]
           ELSE /\ ~Aborted(output.st)
                /\ Holds(output.st, "x", input.e)
                /\ SameValue(output.val, output.st.heap,
                             ResultOf(input.e).val, ResultOf(input.e).st.heap)

\* x = 0; while (n == 0) { x = "s"; n = 1; } return x; returned "s", and
\* x = 1; x + 1 = (x = 2); failed with x still 1
C17_Witness ==
    /\ done /\ input.family = "assignment"
    /\ \/ /\ input.form = "while" /\ input.e = 5
          /\ output.val = StringV(<<"s">>)
       \/ /\ input.form = "target" /\ input.e = 3
          /\ output.st.error = "Invalid assignment target"
          /\ output.st.variables["x"] = IntV(1)

\* the node of an expression as written
NodeOf(words) == parse_expression(Parser(words)).node

\* C18: a declaration int name = expr; or float name; is accepted by the
\* parser and yields a DECLARATION statement that holds the assignment of the
\* initializer to the name when there is an initializer.
C18_DeclarationAccepted ==
    (done /\ input.family = "declaration") =>
        /\ output.error = ""
        /\ output.node =
              Block(<<IF input.init = 0 THEN StmtNode("DECLARATION")
                      ELSE [StmtNode("DECLARATION") EXCEPT
                                !.expr = BinaryNode("ASSIGN", Ident(input.name),
                                                    NodeOf(SourceExprs[input.init]))]>>)

\* { int x = 1 ; } and { float n ; } were rejected at the type keyword
C18_Rejected ==
    /\ done /\ input.family = "declaration"
    /\ \/ input.type = "int" /\ input.name = "x" /\ input.init = 4
       \/ input.type = "float" /\ input.name = "n" /\ input.init = 0
    /\ output.error = "Expected identifier in declaration"

\* the EACH statement of an input: parameters [a, b] over the array, with
\* the condition and the body as written
EachNode(in) ==
    parse_each_statement(<<"a", "b">>, in.arr, NodeOf(MeetWords[in.meet]),
        Block(<<ExpressionStmt(
                    BinaryNode("ASSIGN", Ident("total"),
                               BinaryNode("ADD", Ident("total"), Num(1))))>>))

\* the body of the endpoint around the EACH statement
EachBody(in) ==
    IF in.whole
    THEN Block(<<ExpressionStmt(BinaryNode("ASSIGN", Ident(in.arr),
                                    ArrayLit(<<Num(1), Num(2), Num(3), Num(4)>>))),
                 ExpressionStmt(BinaryNode("ASSIGN", Ident("total"), Num(0))),
                 EachNode(in),
                 parse_return_statement(Ident("total"))>>)
    ELSE Block(<<EachNode(in)>>)

\* C19: the parser accepts each ( p0, p1 in arr ) meet cond { body } and
\* produces an EACH statement with the parameters [p0, p1] over arr.
C19_ParenthesisedEach ==
    (done /\ input.family = "each_source" /\ input.parens) =>
        /\ output.error = ""
        /\ output.node = EachBody(input)

\* without the parentheses the statement is accepted and yields that node
C19_BareEach ==
    (done /\ input.family = "each_source" /\ ~input.parens) =>
        /\ output.error = ""
        /\ output.node = EachBody(input)

\* the endpoint of scenario 5 was rejected at the opening parenthesis
C19_Rejected ==
    /\ done /\ input.family = "each_source" /\ input.parens
    /\ input.whole /\ input.arr = "xs" /\ input.meet = 1
    /\ output.error = "Expected identifier in parameter list"

\* the same block with every statement ended by ;
WithSemicolon(in) == parse_block(Parser(BlockWords([in EXCEPT !.end = ";"])))

\* C20: a statement ended by a newline instead of ; is accepted by the parser
\* and yields the same AST as the same statement ended by ; (for the
\* statements that are accepted when ended by ;).
C20_NewlineTerminates ==
    (done /\ input.family = "terminator" /\ WithSemicolon(input).P.error = "") =>
        /\ output.error = ""
        /\ output.node = WithSemicolon(input).node

\* { x = 1 <newline> y = 2 ; } and { return x <newline> } were rejected
C20_Rejected ==
    /\ done /\ input.family = "terminator" /\ input.end = "\n"
    /\ \/ /\ input.statement = 1 /\ input.more
          /\ output.error = "Expected ';' after expression"
       \/ /\ input.statement = 2 /\ ~input.more
          /\ output.error = "Expected ';' after return"

\* the positions of a history at which a RETURN stored its value
ReturnsIn(log) == {k \in 1..Len(log) : log[k].e = "return"}

\* C23: a return with an expression that executes inside the body of a while,
\* for or each loop ends the loop and the evaluation: the evaluation
\* terminates, nothing is executed or checked after the return, and the
\* result is the value of that return.
C23_ReturnEndsLoop ==
    (done /\ input.family = "loop") =>
        LET log == output.st.log
        IN  /\ ~Aborted(output.st)
            /\ ReturnsIn(log) # {}
            /\ \A k \in ReturnsIn(log) :
                  /\ \A m \in (k + 1)..Len(log) : log[m].e = "leave"
                  /\ output.val = log[k].val

\* { while (1 == 1) { return 7; } } did not terminate, and
\* { for (i = 0; i < 2; i = i + 1) return i; } returned more than once
C23_LoopGoesOn ==
    /\ done /\ input.family = "loop"
    /\ \/ input.loop = "while" /\ input.braces /\ output.st.hung
       \/ input.loop = "for" /\ ~input.braces /\ Cardinality(ReturnsIn(output.st.log)) > 1
       \/ input.loop = "each" /\ input.braces /\ Cardinality(ReturnsIn(output.st.log)) > 1

\* C25: the member expressions of an object literal are evaluated in the order
\* of the source: after o = { "<k1>": x = 1, "<k2>": x = 2 }; the variable x
\* is 2, for every pair of keys.
C25_MembersInSourceOrder ==
    (done /\ input.family = "object") =>
        /\ output.error = "" /\ ~Aborted(output.st)
        /\ output.val = IntV(2)
        /\ output.st.variables["x"] = IntV(2)

\* o = { "a": x = 1, "b": x = 2 }; left x = 1 in a build that visits b first,
\* and o = { "b": x = 1, "a": x = 2 }; left x = 1 in a build that visits a first
C25_HashOrder ==
    /\ done /\ input.family = "object"
    /\ output.error = "" /\ ~Aborted(output.st)
    /\ output.val = IntV(1)
    /\ \/ input.first = "a" /\ input.second = "b" /\ input.hash = "desc"
       \/ input.first = "b" /\ input.second = "a" /\ input.hash = "asc"

\* an operand of a comparison of compound values, evaluated on its own
CompoundValue(e) == evaluate_expression(e, NewExecutor(<<>>, input.net, "asc"))

\* C26: == and != compare by value: two values with the same type tags and
\* the same contents are equal under == and not unequal under !=, also when
\* they are compound values built by separate literals or separate decodes;
\* all other pairs are unequal.
C26_CompareByValue ==
    (done /\ input.family = "compound") =>
        LET L == CompoundValue(CompoundExprs("x")[input.l])
            R == CompoundValue(CompoundExprs("y")[input.r])
        IN  /\ output.st.error = ""
            /\ output.val = BoolV((input.op = "EQ")
                                    <=> SameValue(L.val, L.st.heap, R.val, R.st.heap))

\* [1, 2] == [1, 2] is false, and (x <- "u") != (y <- "u") is true
C26_ByAddress ==
    /\ done /\ input.family = "compound"
    /\ output.st.error = ""
    /\ \/ input.op = "EQ" /\ input.l = 2 /\ input.r = 2 /\ output.val = BoolV(FALSE)
       \/ input.op = "NEQ" /\ input.l = 9 /\ input.r = 9 /\ output.val = BoolV(TRUE)

\* the value written as DotObjects[o], evaluated on its own
ObjectOf(o) == RunBody(Body(ReturnOf(DotObjects[o])))

IsObject(val) == val.t = "complex" /\ val.first = ObjectTag

\* C27: o.k with an identifier key on an object yields the value bound to k,
\* or the null value when k is absent, without failing and without changing
\* the object (its serialisation afterwards is the one before the access); on
\* a value that is not an object the access fails.
C27_DotAccess ==
    (done /\ input.family = "dot") =>
        LET O == ObjectOf(input.o)
            st == output.st
        IN  /\ output.error = ""
            /\ IF IsObject(O.val)
               THEN LET map == O.st.heap[O.val.second].map
                    IN  /\ ~Aborted(st)
                        /\ "v" \in DOMAIN st.variables
                        /\ IF input.key \in DOMAIN map
                           THEN SameValue(st.variables["v"], st.heap,
                                          map[input.key], O.st.heap)
                           ELSE st.variables["v"] = DefaultValue
                        /\ to_json(st.variables["o"], st.heap) = to_json(O.val, O.st.heap)
                        /\ to_json(output.val, st.heap) = to_json(O.val, O.st.heap)
               ELSE st.error # ""

\* o = { "a": 1 }; v = o.k; left v = 0 and o = { "a": 1 };
\* o = { "k": [1], "a": "s" }; v = o.k; left v = [1]; and o = [1]; v = o.a; failed
C27_Witness ==
    /\ done /\ input.family = "dot" /\ output.error = ""
    /\ \/ /\ input.o = 3 /\ input.key = "k" /\ ~Aborted(output.st)
          /\ output.st.variables["v"] = IntV(0)
          /\ to_json(output.val, output.st.heap) = JObject([key \in {"a"} |-> JInt(1)])
       \/ /\ input.o = 4 /\ input.key = "k" /\ ~Aborted(output.st)
          /\ to_json(output.st.variables["v"], output.st.heap) = JArray(<<JInt(1)>>)
       \/ /\ input.o = 5 /\ input.key = "a"
          /\ output.st.error = "Field access on non-object type"

\* what an evaluation leaves behind, its history apart
Leaves(R) ==
    [val |-> R.val, variables |-> R.st.variables, return_ |-> R.st.return_,
     heap |-> R.st.heap, error |-> R.st.error, hung |-> R.st.hung, out |-> R.st.out]

\* C28: return; neither sets the returning flag nor changes the stored result:
\* a body with return; leaves what the same body with the empty statement in
\* its place leaves, so the statements after it are executed and a later
\* return with an expression determines the result.
C28_ReturnNothing ==
    (done /\ input.family = "return") =>
        /\ output.error = "" /\ ~Aborted(output.st)
        /\ Leaves(output) = Leaves(RunBody(Body(Around(input.form, <<Punct(";")>>))))

\* x = 1; return; x = 2; return x; yielded 2,
\* { return 4; } return; x = 9; yielded 4 and left x = 9, and
\* x = 1; return; yielded 0
C28_Witness ==
    /\ done /\ input.family = "return" /\ output.error = "" /\ ~Aborted(output.st)
    /\ \/ input.form = 1 /\ output.val = IntV(2)
       \/ input.form = 5 /\ output.val = IntV(4) /\ output.st.variables["x"] = IntV(9)
       \/ input.form = 3 /\ output.val = IntV(0) /\ output.st.variables["x"] = IntV(1)

\* C21: every response the server writes, the 200 of a matched endpoint and
\* the 404 of an unmatched path alike, carries Content-Type
\* application/json; charset=utf-8
C21_ContentType ==
    \A s \in 1..Len(sessions) :
        Responded(s) =>
            /\ sessions[s].res.status \in {200, 404}
            /\ sessions[s].res.content_type = JsonContentType

\* one connection has been answered 200 and another 404
C21_Witness ==
    \E s, r \in 1..Len(sessions) :
        /\ sessions[s].state = "done" /\ sessions[s].res.status = 200
        /\ sessions[s].target \in DOMAIN apisByPort[sessions[s].port]
        /\ sessions[r].state = "done" /\ sessions[r].res.status = 404
        /\ sessions[r].target \notin DOMAIN apisByPort[sessions[r].port]

\* the last api item of a source text that declares path for port p
LastDeclared(items, p, path) ==
    CHOOSE k \in DeclaredOn(items, p, path) : \A m \in DeclaredOn(items, p, path) : m <= k

\* C30: the routing table built at boot holds one endpoint per (port, path):
\* of several endpoints declared with the same path on the same port the one
\* declared last serves the requests; the same path on different ports is
\* kept separately.
C30_LastDeclaredWins ==
    phase = "serving" =>
        /\ \A k \in 1..Len(source) :
              source[k].kind = "api" =>
                  /\ PortInForce(source, k) \in DOMAIN apisByPort
                  /\ source[k].path \in DOMAIN apisByPort[PortInForce(source, k)]
        /\ \A p \in DOMAIN apisByPort : \A path \in DOMAIN apisByPort[p] :
              /\ DeclaredOn(source, p, path) # {}
              /\ apisByPort[p][path] =
                     LET k == LastDeclared(source, p, path)
                     IN  APINode(source[k].path, p, source[k].body)
        /\ \A s \in 1..Len(sessions) :
              (Responded(s) /\ DeclaredOn(source, sessions[s].port, sessions[s].target) # {}) =>
                  LET k == LastDeclared(source, sessions[s].port, sessions[s].target)
                  IN  /\ sessions[s].res.status = 200
                      /\ sessions[s].res.body =
                             Solo(APINode(source[k].path, sessions[s].port, source[k].body))

\* a path declared twice on one port and once on another: a request to each
\* port has been answered, the first by the later of the two declarations
C30_Witness ==
    \E s, r \in 1..Len(sessions) :
        LET p == sessions[s].port
            D == DeclaredOn(source, p, sessions[s].target)
        IN  /\ sessions[s].state = "done" /\ sessions[r].state = "done"
            /\ sessions[r].port # p /\ sessions[r].target = sessions[s].target
            /\ Cardinality(D) = 2
            /\ DeclaredOn(source, sessions[r].port, sessions[r].target) # {}
            /\ \E k \in D :
                  /\ k # LastDeclared(source, p, sessions[s].target)
                  /\ Solo(APINode(source[k].path, p, source[k].body)) # sessions[s].res.body
            /\ sessions[r].res.body # sessions[s].res.body

Evaluating(p) ==
    {s \in 1..Len(sessions) :
        sessions[s].port = p /\ sessions[s].state \in {"running", "hung"}}

\* C22: endpoint evaluation never blocks the acceptor: while any number of
\* endpoint bodies of a port are running or blocked, the listener of the port
\* accepts new connections and their requests are read, and after every
\* accept completion, successful or failed, the next accept is outstanding.
C22_AcceptorNeverBlocked ==
    (phase = "serving" /\ alive) =>
        \A p \in DOMAIN apisByPort :
            /\ p \in accepting
            /\ ENABLED on_accept(p, TRUE)
            /\ Len(sessions) < MaxClients => ENABLED on_accept(p, FALSE)
            /\ \A s \in 1..Len(sessions) :
                  (sessions[s].port = p /\ sessions[s].state = "reading") =>
                      \A target \in PoolTargets : ENABLED handle_request(s, target)

\* every worker of the port is in a body that never finishes, and a
\* connection accepted after that has had its request read
C22_Witness ==
    \E p \in DOMAIN apisByPort :
        /\ Cardinality({s \in Evaluating(p) : sessions[s].state = "hung"}) = PoolSize
        /\ \E s \in 1..Len(sessions) :
              /\ sessions[s].port = p /\ sessions[s].state = "queued"
              /\ \A r \in Evaluating(p) : r < s

\* the request of session s is posted and its target is no endpoint of its port
QueuedMiss(s) ==
    /\ s <= Len(sessions)
    /\ sessions[s].state = "queued"
    /\ sessions[s].target \notin DOMAIN apisByPort[sessions[s].port]

\* C24: a request whose target matches no endpoint of its port is answered
\* with 404 without needing a worker of the pool: it receives its 404 even
\* while all workers of the port are occupied by bodies that never finish.
C24_NotFoundNeedsNoWorker ==
    \A s \in 1..MaxClients :
        QueuedMiss(s) ~> (s <= Len(sessions) /\ Responded(s) /\ sessions[s].res.status = 404)

\* all workers of the port are in bodies that never finish and the request
\* for a path the port does not declare is first in the queue, not started
C24_Starved ==
    \E s \in 1..Len(sessions) :
        /\ QueuedMiss(s)
        /\ Head(pool[sessions[s].port]) = s
        /\ Cardinality({r \in Evaluating(sessions[s].port) :
                           sessions[r].state = "hung"}) = PoolSize
        /\ ~ENABLED WorkerLookup(s)

====
